---- MODULE Spec2Model ----
(***************************************************************************)
(* The Watcher agent of optics-monorepo: ContractWatcher, HistorySync,     *)
(* UpdateHandler, the Watcher supervisor (run_watch_tasks / run_all) and   *)
(* the failure fan-out (handle_failure), from                              *)
(* rust/agents/watcher/src/watcher.rs.                                     *)
(*                                                                         *)
(* Every await point of the source is a step boundary: one action models   *)
(* the code from one suspension point to the next.                         *)
(***************************************************************************)
EXTENDS Naturals, Sequences, FiniteSets, TLC

\* ------------------------------------------------------------------ bounds
\* Roots are 0..MaxRoot; 0 is H256::zero().
MaxRoot == 2
\* Total number of updates ever put on the update channel in one behaviour.
MaxSends == 2
\* Replicas are 1..MaxReplicas; contract 0 is the home.
MaxReplicas == 1
\* Connection managers are 1..MaxManagers.
MaxManagers == 1

\* ------------------------------------------------------- program constants
ZeroRoot == 0
ChannelCapacity == 200

\* -------------------------------------------------------------- data model
Roots == ZeroRoot..MaxRoot
Domains == {1, 2}
\* home.local_domain()
HomeDomain == 1

\* optics_core::Update, signed: the model keeps the three fields the agent
\* reads.  An update never maps a root to itself.
SignedUpdate ==
    {u \in [home_domain : Domains, previous_root : Roots, new_root : Roots] :
        u.previous_root # u.new_root}

\* Option::None of a SignedUpdate.
NoUpdate == [home_domain |-> 0, previous_root |-> ZeroRoot, new_root |-> ZeroRoot]

\* optics_core::DoubleUpdate(SignedUpdate, SignedUpdate)
DoubleUpdate(a, b) == [first |-> a, second |-> b]
NoDouble == DoubleUpdate(NoUpdate, NoUpdate)

\* ------------------------------------------------------------------- state
VARIABLES
    store,      \* HomeDB scoped to home_name: previous_root -> SignedUpdate
    chan,       \* buffer of the mpsc update channel
    sent,       \* number of updates handed to a Sender so far
    testTx,     \* a Sender held outside the agent (the unit tests' tx)
    testRx,     \* the Receiver is held outside the agent (the unit tests' rx)
    hPc,        \* UpdateHandler: position in the loop of spawn
    hUpdate,    \* UpdateHandler: the update received in this iteration
    hResult,    \* UpdateHandler: the task's terminal value
    hReceived,  \* history: the set of updates rx.recv() has returned before
    hTrace,     \* history of the current message: the root the home answered,
                \* the home.update calls and their outcome, the store check
                \* the one in hUpdate
    cw,         \* ContractWatcher task of each contract
    hs,         \* HistorySync task of each contract
    replicas,   \* AgentCore.replicas, in the order values() iterates it
    managers,   \* Watcher.connection_managers: their number
    fan,        \* handle_failure: its position, its calls and their outcomes
    idx,        \* the indexer task started by run_all
    wt,         \* the task spawned by run_watch_tasks
    ra,         \* the task spawned by run_all
    oneshot,    \* the value in the one-shot channel (NoDouble: none)
    watch_tasks, \* Watcher.watch_tasks: the replicas whose handle it holds
    sync_tasks, \* Watcher.sync_tasks: the replicas whose handle it holds
    signed,     \* the signed updates the contracts hold: what an adapter can return
    tracing,    \* whether the pollers' histories (returned, emitted) are kept
    following,  \* whether the handler's history of the current message is kept
    indexer,    \* HomeIndexer::spawn: the locals of its task and its position
    indexed,    \* what the HomeIndexer has put in its db: the resume height and
                \* the block heights whose updates and leaves are stored
    invocation  \* a call of optics-core utils or of a Home wrapper, with its result

handlerVars == <<hPc, hUpdate, hResult, hReceived, hTrace>>
chanVars == <<chan, sent, testTx, testRx>>
pollerVars == <<cw, hs>>
configVars == <<replicas, managers, signed, tracing, following>>
libraryVars == <<indexer, indexed, invocation>>
agentVars == <<idx, wt, ra, oneshot, watch_tasks, sync_tasks>>
vars == <<store, chanVars, handlerVars, pollerVars, configVars, libraryVars, fan, agentVars>>

Home == 0
Replicas == 1..MaxReplicas
Contracts == {Home} \cup Replicas
Managers == 1..MaxManagers

\* A poller task: its fields (committed_root, the update its send is holding),
\* the task's result, and the history of what the adapter returned to it and
\* what it delivered to the channel.
Task(pc, root, from) ==
    [pc |-> pc, committed_root |-> root, pending |-> NoUpdate, result |-> "Pending",
     from |-> from, lastAnswer |-> "", returned |-> <<>>, emitted |-> <<>>]

NoTask == Task("absent", ZeroRoot, ZeroRoot)

\* The histories are kept only when tracing.
Record(history, update) == IF tracing THEN Append(history, update) ELSE history
Note(answer) == IF tracing THEN answer ELSE ""

\* A task that has ended is dropped with its fields: its committed_root is
\* kept only for the histories.
Gone(root) == IF tracing THEN root ELSE ZeroRoot

\* ContractWatcher::new(interval, from, tx, contract).spawn()
NewTask(from) == Task("poll", from, IF tracing THEN from ELSE ZeroRoot)

\* A task that is not a poller: its position and its result.
Job(pc, result) == [pc |-> pc, result |-> result]

\* The run_watch_tasks task: i is the position of its loop over the replicas,
\* tx tells whether it holds the Sender it created.
WatchJob(pc, i, tx, result) == [pc |-> pc, i |-> i, tx |-> tx, result |-> result]

\* No HomeIndexer loop and no library call under way.
NoIndexer ==
    [pc |-> "absent", from_height |-> 0, chunk_size |-> 0,
     next_height |-> 0, tip |-> 0, to |-> 0,
     sync_updates |-> "none", sync_leaves |-> "none", result |-> "Pending"]
NothingIndexed == [last_inspected |-> <<>>, updates |-> {}, leaves |-> {}]
NoCall == [fn |-> "none"]
NoLibrary ==
    /\ indexer = NoIndexer
    /\ indexed = NothingIndexed
    /\ invocation = NoCall

\* run_all not running.
NoSupervisor ==
    /\ idx = Job("absent", "Pending")
    /\ wt = WatchJob("absent", 0, FALSE, "Pending")
    /\ ra = Job("absent", "Pending")
    /\ oneshot = NoDouble
    /\ watch_tasks = {}
    /\ sync_tasks = {}

\* handle_failure not running.
\* The addresses home.updater() may answer with, and the Watcher's own signer.
Updaters == {"updater_a", "updater_b"}
WatcherSigner == "watcher_signer"

\* A FailureNotification whose home_domain is not the one the home answered.
FailureNotification_fixed_domain(home_domain, updater) ==
    [home_domain |-> HomeDomain, updater |-> updater]

\* FailureNotification { home_domain, updater }
FailureNotification(home_domain, updater) ==
    [home_domain |-> home_domain, updater |-> updater]

\* notification.sign_with(signer): the payload and the key that signed it.
sign_with(notification, signer) == [notification |-> notification, signer |-> signer]

NoSignedFailure == sign_with(FailureNotification(0, ""), "")

FanIdle ==
    [pc |-> "idle", double |-> NoDouble,
     local_domain |-> 0, domainCalls |-> 0, updater |-> "", updaterCalls |-> 0,
     signed_failure |-> NoSignedFailure,
     duCalls |-> [c \in Contracts |-> 0], duOut |-> [c \in Contracts |-> "none"],
     duArg |-> [c \in Contracts |-> NoDouble],
     unCalls |-> [m \in Managers |-> 0], unOut |-> [m \in Managers |-> "none"],
     unArg |-> [m \in Managers |-> NoSignedFailure],
     res |-> <<>>]

\* No Watcher: the state of the specifications of one task alone.
NoAgent ==
    /\ replicas = <<>>
    /\ managers = 0
    /\ signed = SignedUpdate
    /\ tracing = TRUE
    /\ following = FALSE
    /\ fan = FanIdle
    /\ NoLibrary
    /\ NoSupervisor

\* -------------------------------------------------------------- the HomeDB
EmptyStore == [r \in Roots |-> NoUpdate]

update_by_previous_root(db, old_root) == db[old_root]

store_latest_update(db, update) == [db EXCEPT ![update.previous_root] = update]

\* ------------------------------------------------------ the update channel
\* Senders alive: recv() returns None only when there is none and the buffer
\* is empty.
Running(task) == task.pc \in {"poll", "send"}

SenderCount ==
    (IF testTx THEN 1 ELSE 0)
    + (IF wt.tx THEN 1 ELSE 0)
    + Cardinality({c \in Contracts : Running(cw[c])})
    + Cardinality({c \in Contracts : Running(hs[c])})

\* The Receiver is alive while the handler task runs or a test holds it.
ReceiverAlive == testRx \/ hPc \notin {"absent", "done"}

CanSend == ReceiverAlive /\ Len(chan) < ChannelCapacity /\ sent < MaxSends

\* ----------------------------------------------------------- UpdateHandler
Pending == [tag |-> "Pending", double |-> NoDouble, why |-> ""]
OkDouble(d) == [tag |-> "Ok", double |-> d, why |-> ""]
Err(why) == [tag |-> "Err", double |-> NoDouble, why |-> why]
Panicked(why) == [tag |-> "Panic", double |-> NoDouble, why |-> why]

\* A check_double_update that files the update under its new_root.
check_double_update_keyed_by_new_root(db, update) ==
    LET existing == update_by_previous_root(db, update.previous_root)
    IN  IF existing # NoUpdate
        THEN IF existing.new_root # update.new_root
             THEN [home_db |-> db, double |-> DoubleUpdate(existing, update)]
             ELSE [home_db |-> db, double |-> NoDouble]
        ELSE [home_db |-> [db EXCEPT ![update.new_root] = update], double |-> NoDouble]

\* UpdateHandler::check_double_update: the store after the call and the
\* DoubleUpdate it returns as Err (NoDouble for Ok(())).
check_double_update(db, update) ==
    LET old_root == update.previous_root
        new_root == update.new_root
        existing == update_by_previous_root(db, old_root)
    IN  IF existing # NoUpdate
        THEN IF existing.new_root # new_root
             THEN [home_db |-> db, double |-> DoubleUpdate(existing, update)]
             ELSE [home_db |-> db, double |-> NoDouble]
        ELSE [home_db |-> store_latest_update(db, update), double |-> NoDouble]

\* Nothing noted about the current message.
NoTrace == [answered |-> FALSE, committed |-> ZeroRoot, updateCalls |-> 0, outcome |-> "none", checked |-> FALSE]

\* The history of the current message is kept only when following.
Trace(t) == IF following THEN t ELSE NoTrace

\* A recv that hands out the newest buffered update instead of the oldest.
HandlerRecv_takes_newest ==
    /\ hPc = "recv"
    /\ \/ /\ chan # <<>>
          /\ hUpdate' = chan[Len(chan)]
          /\ chan' = SubSeq(chan, 1, Len(chan) - 1)
          /\ hReceived' = IF hUpdate = NoUpdate \/ ~tracing THEN hReceived
                          ELSE hReceived \cup {hUpdate}
          /\ hTrace' = NoTrace
          /\ hPc' = "root"
          /\ UNCHANGED hResult
       \/ /\ chan = <<>>
          /\ SenderCount = 0
          /\ hPc' = "done"
          /\ hResult' = Err("Channel closed.")
          /\ hTrace' = NoTrace
          /\ UNCHANGED <<chan, hUpdate, hReceived>>
    /\ UNCHANGED <<store, sent, testTx, testRx, pollerVars, configVars, libraryVars, fan, agentVars>>

\* rx.recv().await: the next update, or None (bail "Channel closed.") when
\* every Sender is gone and the buffer is empty.
HandlerRecv ==
    /\ hPc = "recv"
    /\ \/ /\ chan # <<>>
          /\ hUpdate' = Head(chan)
          /\ chan' = Tail(chan)
          /\ hReceived' = IF hUpdate = NoUpdate \/ ~tracing THEN hReceived
                          ELSE hReceived \cup {hUpdate}
          /\ hTrace' = NoTrace
          /\ hPc' = "root"
          /\ UNCHANGED hResult
       \/ /\ chan = <<>>
          /\ SenderCount = 0
          /\ hPc' = "done"
          /\ hResult' = Err("Channel closed.")
          /\ hTrace' = NoTrace
          /\ UNCHANGED <<chan, hUpdate, hReceived>>
    /\ UNCHANGED <<store, sent, testTx, testRx, pollerVars, configVars, libraryVars, fan, agentVars>>

\* A loop that notes the DoubleUpdate and goes on receiving.
HandlerCheck_keeps_draining ==
    LET r == check_double_update(store, hUpdate)
    IN  /\ store' = r.home_db
        /\ hPc' = "recv"
        /\ hResult' = IF r.double # NoDouble THEN OkDouble(r.double) ELSE hResult

\* self.check_double_update(&update) and what the loop does with its result:
\* a store error panics the task (expect("!db_get"), expect("!db_put")), a
\* DoubleUpdate is returned, otherwise the loop goes back to recv.
HandlerCheck ==
    \/ /\ hPc' = "done"
       /\ hResult' = Panicked("!db")
       /\ UNCHANGED store
    \/ LET r == check_double_update(store, hUpdate)
       IN  /\ store' = r.home_db
           /\ IF r.double # NoDouble
              THEN hPc' = "done" /\ hResult' = OkDouble(r.double)
              ELSE hPc' = "recv" /\ UNCHANGED hResult

\* A loop that looks the update up first and relays only what does not
\* conflict.
HandlerCommittedRoot_checks_first ==
    /\ hPc = "root"
    /\ \/ /\ hPc' = "done"
          /\ hResult' = Err("ChainCommunicationError")
          /\ UNCHANGED <<store, hTrace>>
       \/ \E committed \in Roots :
            IF committed = hUpdate.previous_root
               /\ check_double_update(store, hUpdate).double = NoDouble
            THEN /\ hPc' = "relay"
                 /\ hTrace' = Trace([hTrace EXCEPT !.answered = TRUE, !.committed = committed,
                                                   !.updateCalls = @ + 1])
                 /\ UNCHANGED <<store, hResult>>
            ELSE /\ hTrace' = Trace([hTrace EXCEPT !.answered = TRUE, !.committed = committed,
                                                   !.checked = TRUE])
                 /\ HandlerCheck
    /\ UNCHANGED <<chanVars, hUpdate, hReceived, pollerVars, configVars, libraryVars, fan, agentVars>>

\* self.home.committed_root().await? and the comparison with old_root: an
\* error ends the task; on equality home.update is called; otherwise the
\* check follows at once.  The home's committed root is whatever the chain
\* holds at that moment.
HandlerCommittedRoot ==
    /\ hPc = "root"
    /\ \/ /\ hPc' = "done"
          /\ hResult' = Err("ChainCommunicationError")
          /\ UNCHANGED <<store, hTrace>>
       \/ \E committed \in Roots :
            IF committed = hUpdate.previous_root
            THEN /\ hPc' = "relay"
                 /\ hTrace' = Trace([hTrace EXCEPT !.answered = TRUE, !.committed = committed,
                                                   !.updateCalls = @ + 1])
                 /\ UNCHANGED <<store, hResult>>
            ELSE /\ hTrace' = Trace([hTrace EXCEPT !.answered = TRUE, !.committed = committed,
                                                   !.checked = TRUE])
                 /\ HandlerCheck
    /\ UNCHANGED <<chanVars, hUpdate, hReceived, pollerVars, configVars, libraryVars, fan, agentVars>>

\* A relay whose error is returned with `?`.
HandlerRelay_returns_error ==
    /\ hPc = "relay"
    /\ \E outcome \in {"executed", "reverted", "error"} :
          /\ hTrace' = Trace([hTrace EXCEPT !.outcome = outcome, !.checked = outcome # "error"])
          /\ IF outcome = "error"
             THEN hPc' = "done" /\ hResult' = Err("ChainCommunicationError") /\ UNCHANGED store
             ELSE HandlerCheck
    /\ UNCHANGED <<chanVars, hUpdate, hReceived, pollerVars, configVars, libraryVars, fan, agentVars>>

\* let _ = self.home.update(&update).await: the outcome is dropped and the
\* check follows.
HandlerRelay ==
    /\ hPc = "relay"
    /\ \E outcome \in {"executed", "reverted", "error"} :
          /\ hTrace' = Trace([hTrace EXCEPT !.outcome = outcome, !.checked = TRUE])
          /\ HandlerCheck
    /\ UNCHANGED <<chanVars, hUpdate, hReceived, pollerVars, configVars, libraryVars, fan, agentVars>>

\* ------------------------------------------- the handler's unit-test harness
\* tx.send(update).await from outside the agent.  The handler takes the
\* updates one at a time and cannot tell when each was sent, so the next one
\* is sent when it has taken the one before.
TestSend ==
    /\ testTx
    /\ CanSend
    /\ chan = <<>>
    /\ \E u \in SignedUpdate : chan' = Append(chan, u)
    /\ sent' = sent + 1
    /\ UNCHANGED <<store, testTx, testRx, handlerVars, pollerVars, configVars, libraryVars, fan, agentVars>>

\* The outside Sender is dropped.  The handler can tell only when it waits on
\* an empty buffer, so the drop is taken at that moment.
TestDropTx ==
    /\ testTx
    /\ chan = <<>>
    /\ hPc \in {"recv", "absent"}
    /\ testTx' = FALSE
    /\ UNCHANGED <<store, chan, sent, testRx, handlerVars, pollerVars, configVars, libraryVars, fan, agentVars>>

\* A store as an earlier run or the history population may have left it:
\* empty, or holding one update of the home that extends the zero root.
StoresWithAtMostOne ==
    {EmptyStore} \cup
    {store_latest_update(EmptyStore, u) :
        u \in {v \in SignedUpdate : v.home_domain = HomeDomain /\ v.previous_root = ZeroRoot}}

InitHandler ==
    /\ store \in StoresWithAtMostOne
    /\ chan = <<>>
    /\ sent = 0
    /\ testTx = TRUE
    /\ testRx = FALSE
    /\ hPc = "recv"
    /\ hUpdate = NoUpdate
    /\ hResult = Pending
    /\ hReceived = {}
    /\ hTrace = NoTrace
    /\ cw = [c \in Contracts |-> NoTask]
    /\ hs = [c \in Contracts |-> NoTask]
    /\ NoAgent

NextHandler ==
    \/ TestSend
    \/ TestDropTx
    \/ HandlerRecv
    \/ HandlerCommittedRoot
    \/ HandlerRelay

SpecHandler == InitHandler /\ [][NextHandler]_vars

\* The handler alone again, its relay followed message by message.
InitRelay ==
    /\ store = EmptyStore
    /\ chan = <<>>
    /\ sent = 0
    /\ testTx = TRUE
    /\ testRx = FALSE
    /\ hPc = "recv"
    /\ hUpdate = NoUpdate
    /\ hResult = Pending
    /\ hReceived = {}
    /\ hTrace = NoTrace
    /\ cw = [c \in Contracts |-> NoTask]
    /\ hs = [c \in Contracts |-> NoTask]
    /\ replicas = <<>>
    /\ managers = 0
    /\ signed = SignedUpdate
    /\ tracing = FALSE
    /\ following = TRUE
    /\ fan = FanIdle
    /\ NoLibrary
    /\ NoSupervisor

SpecRelay == InitRelay /\ [][NextHandler]_vars

\* ------------------------------------------------ ContractWatcher, HistorySync
\* What signed_update_by_old_root(root) may answer with Some: the updates that
\* extend root.
Successors(root) == {u \in signed : u.previous_root = root}

\* What signed_update_by_new_root(root) may answer with Some: the updates that
\* produced root.
Predecessors(root) == {u \in signed : u.new_root = root}

\* A poll_and_send_update that forgets to move committed_root.
poll_and_send_update_keeps_root(w, new_update) ==
    [w EXCEPT !.pending = new_update,
              !.lastAnswer = Note("some"),
              !.returned = Record(@, new_update),
              !.pc = "send"]

\* ContractWatcher::poll_and_send_update after Some(new_update): the root moves
\* before the send.
poll_and_send_update(w, new_update) ==
    [w EXCEPT !.committed_root = new_update.new_root,
              !.pending = new_update,
              !.lastAnswer = Note("some"),
              !.returned = Record(@, new_update),
              !.pc = "send"]

\* A poll whose adapter error is logged and followed by the next poll.
WatcherPoll_survives_error(c) ==
    /\ cw[c].pc = "poll"
    /\ \/ cw' = [cw EXCEPT ![c].lastAnswer = Note("error")]
       \/ cw' = [cw EXCEPT ![c].lastAnswer = Note("none")]
       \/ /\ sent < MaxSends
          /\ \E u \in Successors(cw[c].committed_root) :
                cw' = [cw EXCEPT ![c] = poll_and_send_update(cw[c], u)]
    /\ sent' = IF cw'[c].pc = "send" THEN sent + 1 ELSE sent
    /\ UNCHANGED <<store, chan, testTx, testRx, handlerVars, hs, configVars, libraryVars, fan, agentVars>>

\* ContractWatcher: signed_update_by_old_root(self.committed_root).await?
WatcherPoll(c) ==
    /\ cw[c].pc = "poll"
    /\ \/ cw' = [cw EXCEPT ![c].committed_root = Gone(@), ![c].pc = "done", ![c].result = "Err",
                           ![c].lastAnswer = Note("error")]
       \/ cw' = [cw EXCEPT ![c].lastAnswer = Note("none")]
       \/ /\ sent < MaxSends
          /\ \E u \in Successors(cw[c].committed_root) :
                cw' = [cw EXCEPT ![c] = poll_and_send_update(cw[c], u)]
    /\ sent' = IF cw'[c].pc = "send" THEN sent + 1 ELSE sent
    /\ UNCHANGED <<store, chan, testTx, testRx, handlerVars, hs, configVars, libraryVars, fan, agentVars>>

\* A send whose error is swallowed: the watcher goes on polling.
WatcherSend_swallows_error(c) ==
    /\ cw[c].pc = "send"
    /\ \/ /\ ~ReceiverAlive
          /\ cw' = [cw EXCEPT ![c].pc = "poll", ![c].pending = NoUpdate]
          /\ UNCHANGED chan
       \/ /\ ReceiverAlive
          /\ Len(chan) < ChannelCapacity
          /\ chan' = Append(chan, cw[c].pending)
          /\ cw' = [cw EXCEPT ![c].pc = "poll", ![c].pending = NoUpdate,
                              ![c].emitted = Record(@, cw[c].pending)]
    /\ UNCHANGED <<store, sent, testTx, testRx, handlerVars, hs, configVars, libraryVars, fan, agentVars>>

\* ContractWatcher: self.tx.send(new_update).await?, then the sleep.
WatcherSend(c) ==
    /\ cw[c].pc = "send"
    /\ \/ /\ ~ReceiverAlive
          /\ cw' = [cw EXCEPT ![c].committed_root = Gone(@), ![c].pc = "done", ![c].result = "Err",
                              ![c].pending = NoUpdate]
          /\ UNCHANGED chan
       \/ /\ ReceiverAlive
          /\ Len(chan) < ChannelCapacity
          /\ chan' = Append(chan, cw[c].pending)
          /\ cw' = [cw EXCEPT ![c].pc = "poll", ![c].pending = NoUpdate,
                              ![c].emitted = Record(@, cw[c].pending)]
    /\ UNCHANGED <<store, sent, testTx, testRx, handlerVars, hs, configVars, libraryVars, fan, agentVars>>

\* An update_history that leaves committed_root where it was.
update_history_keeps_root(h, previous_update) ==
    [h EXCEPT !.pending = previous_update,
              !.lastAnswer = Note("some"),
              !.returned = Record(@, previous_update),
              !.pc = "send"]

\* HistorySync::update_history after Some(previous_update).
update_history(h, previous_update) ==
    [h EXCEPT !.committed_root = previous_update.previous_root,
              !.pending = previous_update,
              !.lastAnswer = Note("some"),
              !.returned = Record(@, previous_update),
              !.pc = "send"]

\* A HistorySync whose adapter error becomes the task's result.
SyncPoll_reports_error(c) ==
    /\ hs[c].pc = "poll"
    /\ \/ hs' = [hs EXCEPT ![c].committed_root = Gone(@), ![c].pc = "done", ![c].result = "Err",
                           ![c].lastAnswer = Note("error")]
       \/ hs' = [hs EXCEPT ![c].committed_root = Gone(@), ![c].pc = "done", ![c].result = "Ok",
                           ![c].lastAnswer = Note("none")]
       \/ /\ sent < MaxSends
          /\ \E u \in Predecessors(hs[c].committed_root) :
                hs' = [hs EXCEPT ![c] = update_history(hs[c], u)]
    /\ sent' = IF hs'[c].pc = "send" THEN sent + 1 ELSE sent
    /\ UNCHANGED <<store, chan, testTx, testRx, handlerVars, cw, configVars, libraryVars, fan, agentVars>>

\* HistorySync: signed_update_by_new_root(self.committed_root).await?  An error
\* and None both end update_history with Err, and spawn's loop breaks to Ok(()).
SyncPoll(c) ==
    /\ hs[c].pc = "poll"
    /\ \/ hs' = [hs EXCEPT ![c].committed_root = Gone(@), ![c].pc = "done", ![c].result = "Ok",
                           ![c].lastAnswer = Note("error")]
       \/ hs' = [hs EXCEPT ![c].committed_root = Gone(@), ![c].pc = "done", ![c].result = "Ok",
                           ![c].lastAnswer = Note("none")]
       \/ /\ sent < MaxSends
          /\ \E u \in Predecessors(hs[c].committed_root) :
                hs' = [hs EXCEPT ![c] = update_history(hs[c], u)]
    /\ sent' = IF hs'[c].pc = "send" THEN sent + 1 ELSE sent
    /\ UNCHANGED <<store, chan, testTx, testRx, handlerVars, cw, configVars, libraryVars, fan, agentVars>>

\* A send that never tests is_zero().
SyncSend_ignores_zero(c) ==
    /\ hs[c].pc = "send"
    /\ ReceiverAlive
    /\ Len(chan) < ChannelCapacity
    /\ chan' = Append(chan, hs[c].pending)
    /\ hs' = [hs EXCEPT ![c].pc = "poll", ![c].pending = NoUpdate,
                        ![c].emitted = Record(@, hs[c].pending)]
    /\ UNCHANGED <<store, sent, testTx, testRx, handlerVars, cw, configVars, libraryVars, fan, agentVars>>

\* HistorySync: self.tx.send(previous_update).await?, the is_zero() test, then
\* the sleep.
SyncSend(c) ==
    /\ hs[c].pc = "send"
    /\ \/ /\ ~ReceiverAlive
          /\ hs' = [hs EXCEPT ![c].committed_root = Gone(@), ![c].pc = "done", ![c].result = "Ok",
                              ![c].pending = NoUpdate]
          /\ UNCHANGED chan
       \/ /\ ReceiverAlive
          /\ Len(chan) < ChannelCapacity
          /\ chan' = Append(chan, hs[c].pending)
          /\ hs' = [hs EXCEPT
                ![c].pc = IF hs[c].committed_root = ZeroRoot THEN "done" ELSE "poll",
                ![c].result = IF hs[c].committed_root = ZeroRoot THEN "Ok" ELSE @,
                ![c].pending = NoUpdate,
                ![c].emitted = Record(@, hs[c].pending)]
    /\ UNCHANGED <<store, sent, testTx, testRx, handlerVars, cw, configVars, libraryVars, fan, agentVars>>

\* --------------------------------------------- the pollers' unit-test harness
\* rx.recv().await in a test that holds the Receiver.
TestRecv ==
    /\ testRx
    /\ chan # <<>>
    /\ chan' = Tail(chan)
    /\ UNCHANGED <<store, sent, testTx, testRx, handlerVars, pollerVars, configVars, libraryVars, fan, agentVars>>

\* The test drops the Receiver: the channel is closed.
TestDropRx ==
    /\ testRx
    /\ testRx' = FALSE
    /\ UNCHANGED <<store, chan, sent, testTx, handlerVars, pollerVars, configVars, libraryVars, fan, agentVars>>

InitPollerTest ==
    /\ store = EmptyStore
    /\ chan = <<>>
    /\ sent = 0
    /\ testTx = TRUE
    /\ testRx = TRUE
    /\ hPc = "absent"
    /\ hUpdate = NoUpdate
    /\ hResult = Pending
    /\ hReceived = {}
    /\ hTrace = NoTrace
    /\ NoAgent

\* One ContractWatcher on the home, from any root, as in
\* contract_watcher_polls_and_sends_update.
InitWatcher ==
    /\ InitPollerTest
    /\ \E from \in Roots : cw = [c \in Contracts |-> IF c = Home THEN NewTask(from) ELSE NoTask]
    /\ hs = [c \in Contracts |-> NoTask]

NextWatcher ==
    \/ WatcherPoll(Home)
    \/ WatcherSend(Home)
    \/ TestRecv
    \/ TestDropRx

SpecWatcher == InitWatcher /\ [][NextWatcher]_vars

\* One HistorySync on the home, from any root, as in
\* history_sync_updates_history.
InitSync ==
    /\ InitPollerTest
    /\ cw = [c \in Contracts |-> NoTask]
    /\ \E from \in Roots : hs = [c \in Contracts |-> IF c = Home THEN NewTask(from) ELSE NoTask]

NextSync ==
    \/ SyncPoll(Home)
    \/ SyncSend(Home)
    \/ TestRecv
    \/ TestDropRx

SpecSync == InitSync /\ [][NextSync]_vars

\* ------------------------------------------ the update channel under load
\* The signed update of the home that takes root a to root b.
Link(a, b) == [home_domain |-> HomeDomain, previous_root |-> a, new_root |-> b]

\* The buffer one slot short of its capacity: what the home's ContractWatcher
\* has delivered, walking 1 -> 2 -> 1 ..., while the handler was not scheduled.
ChannelBacklog ==
    [i \in 1..(ChannelCapacity - 1) |-> IF i % 2 = 1 THEN Link(1, 2) ELSE Link(2, 1)]

\* The handler and the two pollers of the home on the channel of
\* run_watch_tasks, the handler behind by a backlog: the watcher stands on the
\* root its last delivery took it to.  The home's updater has signed the walk
\* 1 -> 2 -> 1 and, beside it, a second update of root 1.
InitChannel ==
    /\ tracing = FALSE
    /\ store = EmptyStore
    /\ chan = ChannelBacklog
    /\ sent = 0
    /\ testTx = FALSE
    /\ testRx = FALSE
    /\ hPc = "recv"
    /\ hUpdate = NoUpdate
    /\ hResult = Pending
    /\ hReceived = {}
    /\ hTrace = NoTrace
    /\ cw = [c \in Contracts |->
                IF c = Home THEN NewTask(ChannelBacklog[Len(ChannelBacklog)].new_root)
                ELSE NoTask]
    /\ hs = [c \in Contracts |-> IF c = Home THEN NewTask(1) ELSE NoTask]
    /\ replicas = <<>>
    /\ managers = 0
    /\ signed = {Link(1, 2), Link(2, 1), Link(1, ZeroRoot)}
    /\ following = FALSE
    /\ fan = FanIdle
    /\ NoLibrary
    /\ NoSupervisor

NextChannel ==
    \/ WatcherPoll(Home)
    \/ WatcherSend(Home)
    \/ SyncPoll(Home)
    \/ SyncSend(Home)
    \/ HandlerRecv
    \/ HandlerCommittedRoot
    \/ HandlerRelay

SpecChannel == InitChannel /\ [][NextChannel]_vars

\* -------------------------------------------------- Watcher::handle_failure
\* The replicas a Watcher may be built with: any of 1..MaxReplicas, in any
\* iteration order of the map.
ReplicaLists ==
    {q \in UNION {[1..n -> Replicas] : n \in 0..MaxReplicas} :
        \A i, j \in 1..Len(q) : i # j => q[i] # q[j]}

Range(q) == {q[i] : i \in 1..Len(q)}

\* The conflicting pairs a DoubleUpdate can hold.
DoubleUpdates ==
    {DoubleUpdate(p[1], p[2]) :
        p \in {q \in SignedUpdate \X SignedUpdate :
                  /\ q[1].previous_root = q[2].previous_root
                  /\ q[1].new_root # q[2].new_root}}

\* double_update_futs: one future per replica, in values() order, then the
\* home's, pushed last.
double_update_futs == replicas \o <<Home>>

\* unenroll_futs: one future per connection manager, in list order.
unenroll_futs == [i \in 1..managers |-> i]

\* A handle_failure whose double_update calls are issued as they are built.
handle_failure_issues_at_once(double) ==
    [FanIdle EXCEPT !.pc = "updater", !.double = double,
                    !.domainCalls = 1, !.updaterCalls = 1,
                    !.duCalls = [c \in Contracts |->
                        IF c \in Range(double_update_futs) THEN 1 ELSE 0],
                    !.duArg = [c \in Contracts |->
                        IF c \in Range(double_update_futs) THEN double ELSE NoDouble]]

\* handle_failure(&double) up to its first await: the futures are built and
\* not yet polled, so no call has been issued; home.local_domain() is read and
\* home.updater() is asked.
handle_failure(double) ==
    [FanIdle EXCEPT !.pc = "updater", !.double = double,
                    !.domainCalls = 1, !.updaterCalls = 1]

\* self.home().updater().await.unwrap(): an error panics.  The domain the
\* home reported and the address it answers are the home's to choose.
FanoutUpdater ==
    /\ fan.pc = "updater"
    /\ \/ \E domain \in Domains, address \in Updaters :
            fan' = [fan EXCEPT !.pc = "sign", !.local_domain = domain, !.updater = address]
       \/ fan' = [fan EXCEPT !.pc = "panic"]
    /\ UNCHANGED <<store, chanVars, handlerVars, pollerVars, configVars, libraryVars, agentVars>>

\* The signed failure notification handle_failure builds.
signed_failure == sign_with(FailureNotification(fan.local_domain, fan.updater), WatcherSigner)

\* sign_with(signer).await.expect("!sign"), then the first poll of
\* join(join_all(double_update_futs), join_all(unenroll_futs)): every future
\* is polled, which issues its call.
FanoutSign ==
    /\ fan.pc = "sign"
    /\ \/ fan' = [fan EXCEPT
                !.pc = "join",
                !.signed_failure = signed_failure,
                !.duArg = [c \in Contracts |->
                    IF c \in Range(double_update_futs) THEN fan.double ELSE @[c]],
                !.unArg = [m \in Managers |->
                    IF m \in Range(unenroll_futs) THEN signed_failure ELSE @[m]],
                !.duCalls = [c \in Contracts |->
                    IF c \in Range(double_update_futs) THEN @[c] + 1 ELSE @[c]],
                !.duOut = [c \in Contracts |->
                    IF c \in Range(double_update_futs) THEN "pending" ELSE @[c]],
                !.unCalls = [m \in Managers |->
                    IF m \in Range(unenroll_futs) THEN @[m] + 1 ELSE @[m]],
                !.unOut = [m \in Managers |->
                    IF m \in Range(unenroll_futs) THEN "pending" ELSE @[m]]]
       \/ fan' = [fan EXCEPT !.pc = "panic"]
    /\ UNCHANGED <<store, chanVars, handlerVars, pollerVars, configVars, libraryVars, agentVars>>

\* One double_update call returns, with a TxOutcome or an error.
FanoutDoubleUpdateReturns(c) ==
    /\ fan.pc = "join"
    /\ fan.duOut[c] = "pending"
    /\ \E outcome \in {"ok", "err"} : fan' = [fan EXCEPT !.duOut[c] = outcome]
    /\ UNCHANGED <<store, chanVars, handlerVars, pollerVars, configVars, libraryVars, agentVars>>

\* One unenroll_replica call returns, with a TxOutcome or an error.
FanoutUnenrollReturns(m) ==
    /\ fan.pc = "join"
    /\ fan.unOut[m] = "pending"
    /\ \E outcome \in {"ok", "err"} : fan' = [fan EXCEPT !.unOut[m] = outcome]
    /\ UNCHANGED <<store, chanVars, handlerVars, pollerVars, configVars, libraryVars, agentVars>>

\* One element of the returned vector: the outcome of one call, here with the
\* call and the target it came from.
Outcome(call, target, outcome) == [call |-> call, target |-> target, outcome |-> outcome]

\* A join_all that yields the home's outcome first.
double_update_res_home_first ==
    <<Outcome("double_update", Home, fan.duOut[Home])>>
        \o [i \in 1..Len(replicas) |->
                Outcome("double_update", replicas[i], fan.duOut[replicas[i]])]

\* join_all(double_update_futs): the outcomes in the order of the futures.
double_update_res ==
    [i \in 1..Len(double_update_futs) |->
        Outcome("double_update", double_update_futs[i], fan.duOut[double_update_futs[i]])]

\* join_all(unenroll_futs): the outcomes in the order of the futures.
unenroll_res ==
    [i \in 1..Len(unenroll_futs) |->
        Outcome("unenroll_replica", unenroll_futs[i], fan.unOut[unenroll_futs[i]])]

\* A join that gives up at the first error, as try_join would.
FanoutJoin_short_circuits ==
    /\ fan.pc = "join"
    /\ \/ \A c \in Contracts : fan.duOut[c] # "pending"
       \/ \E c \in Contracts : fan.duOut[c] = "err"
    /\ \/ \A m \in Managers : fan.unOut[m] # "pending"
       \/ \E m \in Managers : fan.unOut[m] = "err"
    /\ fan' = [fan EXCEPT
            !.pc = "done",
            !.res = double_update_res \o unenroll_res]
    /\ UNCHANGED <<store, chanVars, handlerVars, pollerVars, configVars, libraryVars, agentVars>>

\* join(..).await completes when every call has returned; the two result
\* vectors are chained and returned.
FanoutJoin ==
    /\ fan.pc = "join"
    /\ \A c \in Contracts : fan.duOut[c] # "pending"
    /\ \A m \in Managers : fan.unOut[m] # "pending"
    /\ fan' = [fan EXCEPT
            !.pc = "done",
            !.res = double_update_res \o unenroll_res]
    /\ UNCHANGED <<store, chanVars, handlerVars, pollerVars, configVars, libraryVars, agentVars>>

\* watcher.handle_failure(&double).await called on a Watcher alone, as in
\* it_fails_contracts_and_unenrolls_replicas_on_double_update.
TestHandleFailure ==
    /\ fan.pc = "idle"
    /\ \E d \in DoubleUpdates : fan' = handle_failure(d)
    /\ UNCHANGED <<store, chanVars, handlerVars, pollerVars, configVars, libraryVars, agentVars>>

InitFanout ==
    /\ store = EmptyStore
    /\ chan = <<>>
    /\ sent = 0
    /\ testTx = FALSE
    /\ testRx = FALSE
    /\ hPc = "absent"
    /\ hUpdate = NoUpdate
    /\ hResult = Pending
    /\ hReceived = {}
    /\ hTrace = NoTrace
    /\ cw = [c \in Contracts |-> NoTask]
    /\ hs = [c \in Contracts |-> NoTask]
    /\ replicas \in ReplicaLists
    /\ managers \in 0..MaxManagers
    /\ signed = SignedUpdate
    /\ tracing = TRUE
    /\ following = FALSE
    /\ fan = FanIdle
    /\ NoLibrary
    /\ NoSupervisor

NextFanout ==
    \/ TestHandleFailure
    \/ FanoutUpdater
    \/ FanoutSign
    \/ \E c \in Contracts : FanoutDoubleUpdateReturns(c)
    \/ \E m \in Managers : FanoutUnenrollReturns(m)
    \/ FanoutJoin

SpecFanout == InitFanout /\ [][NextFanout]_vars

\* ------------------------------------------------------- cancel_task!(task)
\* abort() and then await of the handle: a task that has not finished is
\* dropped at the suspension point it is at, and what it holds goes with it.
cancel_task(task) ==
    IF Running(task)
    THEN [task EXCEPT !.pc = "cancelled", !.result = "Cancelled", !.pending = NoUpdate,
                      !.committed_root = Gone(@)]
    ELSE task

\* ------------------------------------------------- Watcher::run_watch_tasks
\* The task ends: its Sender, the handler's handle and the home pollers'
\* handles are dropped (a dropped handle does not stop its task).
WatchEnds(result) == WatchJob("done", wt.i, FALSE, result)

\* The loop over the replicas is at replica i, or past the last one.
WatchNext(i) ==
    WatchJob(IF i <= Len(replicas) THEN "replica_root" ELSE "home_root", i, TRUE, "Pending")

\* First poll of the task: mpsc::channel(200), UpdateHandler::new(..).spawn(),
\* up to the first committed_root().await.
WatchStart ==
    /\ wt.pc = "start"
    /\ hPc' = "recv"
    /\ wt' = WatchNext(1)
    /\ UNCHANGED <<store, chanVars, hUpdate, hResult, hReceived, hTrace, pollerVars,
                   configVars, libraryVars, fan, idx, ra, oneshot, watch_tasks, sync_tasks>>

\* A start-up that asks the replica for its committed root once per poller.
WatchReplica_queries_per_poller ==
    /\ wt.pc = "replica_root"
    /\ LET name == replicas[wt.i]
       IN  \/ /\ wt' = WatchEnds("Err")
              /\ UNCHANGED <<pollerVars, watch_tasks, sync_tasks>>
           \/ \E from \in Roots, again \in Roots :
                /\ cw' = [cw EXCEPT ![name] = NewTask(from)]
                /\ hs' = [hs EXCEPT ![name] = NewTask(again)]
                /\ watch_tasks' = watch_tasks \cup {name}
                /\ sync_tasks' = sync_tasks \cup {name}
                /\ wt' = WatchNext(wt.i + 1)
    /\ UNCHANGED <<store, chanVars, handlerVars, configVars, libraryVars, fan, idx, ra, oneshot>>

\* replica.committed_root().await?, then both pollers of the replica are
\* spawned from that root and their handles put in the registries.
WatchReplica ==
    /\ wt.pc = "replica_root"
    /\ LET name == replicas[wt.i]
       IN  \/ /\ wt' = WatchEnds("Err")
              /\ UNCHANGED <<pollerVars, watch_tasks, sync_tasks>>
           \/ \E from \in Roots :
                /\ cw' = [cw EXCEPT ![name] = NewTask(from)]
                /\ hs' = [hs EXCEPT ![name] = NewTask(from)]
                /\ watch_tasks' = watch_tasks \cup {name}
                /\ sync_tasks' = sync_tasks \cup {name}
                /\ wt' = WatchNext(wt.i + 1)
    /\ UNCHANGED <<store, chanVars, handlerVars, configVars, libraryVars, fan, idx, ra, oneshot>>

\* A start-up that drops its Sender once the last poller has its clone.
WatchHome_drops_tx ==
    /\ wt.pc = "home_root"
    /\ \/ /\ wt' = WatchEnds("Err")
          /\ UNCHANGED pollerVars
       \/ \E from \in Roots :
            /\ cw' = [cw EXCEPT ![Home] = NewTask(from)]
            /\ hs' = [hs EXCEPT ![Home] = NewTask(from)]
            /\ wt' = [wt EXCEPT !.pc = "await_handler", !.tx = FALSE]
    /\ UNCHANGED <<store, chanVars, handlerVars, configVars, libraryVars, fan, idx, ra, oneshot,
                   watch_tasks, sync_tasks>>

\* home.committed_root().await?, then both pollers of the home are spawned;
\* the task keeps their handles and waits for the handler.
WatchHome ==
    /\ wt.pc = "home_root"
    /\ \/ /\ wt' = WatchEnds("Err")
          /\ UNCHANGED pollerVars
       \/ \E from \in Roots :
            /\ cw' = [cw EXCEPT ![Home] = NewTask(from)]
            /\ hs' = [hs EXCEPT ![Home] = NewTask(from)]
            /\ wt' = [wt EXCEPT !.pc = "await_handler"]
    /\ UNCHANGED <<store, chanVars, handlerVars, configVars, libraryVars, fan, idx, ra, oneshot,
                   watch_tasks, sync_tasks>>

\* An await of the handler that takes a JoinError for a resolved handler.
WatchHandlerResolved_ignores_panic ==
    /\ wt.pc = "await_handler"
    /\ hPc = "done"
    /\ wt' = [wt EXCEPT !.pc = "cancel_home_sync"]
    /\ cw' = [cw EXCEPT ![Home] = cancel_task(@)]
    /\ UNCHANGED <<store, chanVars, handlerVars, hs, configVars, libraryVars, fan, idx, ra, oneshot,
                   watch_tasks, sync_tasks>>

\* handler.await?: a panicked handler ends the task with the JoinError;
\* otherwise cancel_task!(home_watcher) starts.
WatchHandlerResolved ==
    /\ wt.pc = "await_handler"
    /\ hPc = "done"
    /\ IF hResult.tag = "Panic"
       THEN /\ wt' = WatchEnds("Err")
            /\ UNCHANGED cw
       ELSE /\ wt' = [wt EXCEPT !.pc = "cancel_home_sync"]
            /\ cw' = [cw EXCEPT ![Home] = cancel_task(@)]
    /\ UNCHANGED <<store, chanVars, handlerVars, hs, configVars, libraryVars, fan, idx, ra, oneshot,
                   watch_tasks, sync_tasks>>

\* A wind-down that leaves the home's HistorySync running.
WatchCancelHomeSync_leaves_sync ==
    /\ wt.pc = "cancel_home_sync"
    /\ wt' = [wt EXCEPT !.pc = "send"]
    /\ UNCHANGED <<store, chanVars, handlerVars, pollerVars, configVars, libraryVars, fan, idx, ra, oneshot,
                   watch_tasks, sync_tasks>>

\* cancel_task!(home_sync).
WatchCancelHomeSync ==
    /\ wt.pc = "cancel_home_sync"
    /\ hs' = [hs EXCEPT ![Home] = cancel_task(@)]
    /\ wt' = [wt EXCEPT !.pc = "send"]
    /\ UNCHANGED <<store, chanVars, handlerVars, cw, configVars, libraryVars, fan, idx, ra, oneshot,
                   watch_tasks, sync_tasks>>

\* double_update_tx.send(double_update_res?): the handler's error is
\* returned, its DoubleUpdate is put in the one-shot channel.
WatchSend ==
    /\ wt.pc = "send"
    /\ IF hResult.tag = "Ok"
       THEN /\ oneshot' = hResult.double
            /\ wt' = WatchEnds("Ok")
       ELSE /\ wt' = WatchEnds("Err")
            /\ UNCHANGED oneshot
    /\ UNCHANGED <<store, chanVars, handlerVars, pollerVars, configVars, libraryVars, fan, idx, ra,
                   watch_tasks, sync_tasks>>

\* ------------------------------------------------------------ the index task
\* The Update events of the home contract: the contract accepts an update
\* only on its committed root, so it has emitted one update per root; here its
\* chain is ZeroRoot -> 1 -> 2 ..., and every other signed update is one the
\* updater signed beside it.
HomeEvents ==
    {u \in signed : u.home_domain = HomeDomain /\ u.new_root = u.previous_root + 1}

\* HomeIndexer::sync_updates: each Update event of the range is written with
\* store_latest_update, whatever the store holds under its previous_root.
IndexSyncUpdates ==
    /\ idx.pc = "running"
    /\ \E u \in HomeEvents :
          /\ store[u.previous_root] # u
          /\ store' = store_latest_update(store, u)
    /\ UNCHANGED <<chanVars, handlerVars, pollerVars, configVars, libraryVars, fan, agentVars>>

\* The task home.index(..) returns ends, with Ok or with an error.
IndexEnds ==
    /\ idx.pc = "running"
    /\ \E result \in {"Ok", "Err"} : idx' = Job("done", result)
    /\ UNCHANGED <<store, chanVars, handlerVars, pollerVars, configVars, libraryVars, fan, wt, ra,
                   oneshot, watch_tasks, sync_tasks>>

\* ------------------------------------------------ the Ethereum home adapter
\* db.update_by_new_root(&self.name, new_root): the stored updates that
\* produced new_root, any of which the store may answer with.
update_by_new_root(db, new_root) ==
    {db[p] : p \in {q \in Roots : db[q] # NoUpdate /\ db[q].new_root = new_root}}

\* What one pass of an adapter lookup comes to: Ok(Some(update)), Ok(None),
\* Err, or the sleep before the next pass.
Answer(tag, update) == [tag |-> tag, update |-> update]

\* A forward lookup that answers None when the store holds no entry.
signed_update_by_old_root_answers_none(db, old_root) ==
    {Answer("Err", NoUpdate)} \cup
    (IF update_by_previous_root(db, old_root) # NoUpdate
     THEN {Answer("Some", update_by_previous_root(db, old_root))}
     ELSE {Answer("None", NoUpdate)})

\* EthereumHome::signed_update_by_old_root, one pass of its loop: the store
\* error is returned with `?`, a stored update is returned as Some, and
\* otherwise the call sleeps 500 ms and reads again.
signed_update_by_old_root(db, old_root) ==
    {Answer("Err", NoUpdate)} \cup
    (IF update_by_previous_root(db, old_root) # NoUpdate
     THEN {Answer("Some", update_by_previous_root(db, old_root))}
     ELSE {Answer("Sleep", NoUpdate)})

\* EthereumHome::signed_update_by_new_root, one pass of its loop.
signed_update_by_new_root(db, new_root) ==
    {Answer("Err", NoUpdate)} \cup
    (IF update_by_new_root(db, new_root) # {}
     THEN {Answer("Some", u) : u \in update_by_new_root(db, new_root)}
     ELSE {Answer("Sleep", NoUpdate)})

\* ContractWatcher::poll_and_send_update on the Ethereum home: one pass of
\* the adapter's loop and, when the call returns, what the watcher does with
\* the answer.
EthereumWatcherPoll(c) ==
    /\ cw[c].pc = "poll"
    /\ \E answer \in signed_update_by_old_root(store, cw[c].committed_root) :
          CASE answer.tag = "Err" ->
                  cw' = [cw EXCEPT ![c].committed_root = Gone(@), ![c].pc = "done",
                                   ![c].result = "Err", ![c].lastAnswer = Note("error")]
            [] answer.tag = "None" -> cw' = [cw EXCEPT ![c].lastAnswer = Note("none")]
            [] answer.tag = "Sleep" -> cw' = [cw EXCEPT ![c].lastAnswer = Note("sleep")]
            [] answer.tag = "Some" ->
                  /\ sent < MaxSends
                  /\ cw' = [cw EXCEPT ![c] = poll_and_send_update(cw[c], answer.update)]
    /\ sent' = IF cw'[c].pc = "send" THEN sent + 1 ELSE sent
    /\ UNCHANGED <<store, chan, testTx, testRx, handlerVars, hs, configVars, libraryVars, fan, agentVars>>

\* HistorySync::update_history on the Ethereum home: one pass of the
\* adapter's loop and, when the call returns, what the task does with the
\* answer.
EthereumSyncPoll(c) ==
    /\ hs[c].pc = "poll"
    /\ \E answer \in signed_update_by_new_root(store, hs[c].committed_root) :
          CASE answer.tag = "Err" ->
                  hs' = [hs EXCEPT ![c].committed_root = Gone(@), ![c].pc = "done",
                                   ![c].result = "Ok", ![c].lastAnswer = Note("error")]
            [] answer.tag = "None" ->
                  hs' = [hs EXCEPT ![c].committed_root = Gone(@), ![c].pc = "done",
                                   ![c].result = "Ok", ![c].lastAnswer = Note("none")]
            [] answer.tag = "Sleep" -> hs' = [hs EXCEPT ![c].lastAnswer = Note("sleep")]
            [] answer.tag = "Some" ->
                  /\ sent < MaxSends
                  /\ hs' = [hs EXCEPT ![c] = update_history(hs[c], answer.update)]
    /\ sent' = IF hs'[c].pc = "send" THEN sent + 1 ELSE sent
    /\ UNCHANGED <<store, chan, testTx, testRx, handlerVars, cw, configVars, libraryVars, fan, agentVars>>

\* The two pollers of an Ethereum home, spawned from one root as
\* run_watch_tasks does, beside its index task; a test holds the Receiver.
InitEthereumHome ==
    /\ tracing = TRUE
    /\ following = FALSE
    /\ store \in StoresWithAtMostOne
    /\ chan = <<>>
    /\ sent = 0
    /\ testTx = FALSE
    /\ testRx = TRUE
    /\ hPc = "absent"
    /\ hUpdate = NoUpdate
    /\ hResult = Pending
    /\ hReceived = {}
    /\ hTrace = NoTrace
    /\ \E from \in Roots :
          /\ cw = [c \in Contracts |-> IF c = Home THEN NewTask(from) ELSE NoTask]
          /\ hs = [c \in Contracts |-> IF c = Home THEN NewTask(from) ELSE NoTask]
    /\ replicas = <<>>
    /\ managers = 0
    /\ signed = SignedUpdate
    /\ fan = FanIdle
    /\ NoLibrary
    /\ idx = Job("running", "Pending")
    /\ wt = WatchJob("absent", 0, FALSE, "Pending")
    /\ ra = Job("absent", "Pending")
    /\ oneshot = NoDouble
    /\ watch_tasks = {}
    /\ sync_tasks = {}

NextEthereumHome ==
    \/ IndexSyncUpdates
    \/ IndexEnds
    \/ EthereumWatcherPoll(Home)
    \/ EthereumSyncPoll(Home)
    \/ WatcherSend(Home)
    \/ SyncSend(Home)
    \/ TestRecv
    \/ TestDropRx

SpecEthereumHome == InitEthereumHome /\ [][NextEthereumHome]_vars

\* ---------------------------------------------------------- Watcher::run_all
\* What cancel_task! does to the index task and to the run_watch_tasks task.
cancel_job(job) ==
    IF job.pc = "done" THEN job ELSE [job EXCEPT !.pc = "cancelled", !.result = "Cancelled"]

cancel_watch(job) ==
    IF job.pc = "done" THEN job ELSE WatchJob("cancelled", job.i, FALSE, "Cancelled")

\* A run_all that awaits the run_watch_tasks task alone.
RunAllSelect_awaits_watch_tasks ==
    /\ ra.pc = "select"
    /\ wt.pc = "done"
    /\ idx' = cancel_job(idx)
    /\ UNCHANGED wt
    /\ ra' = [ra EXCEPT !.pc = "shutdown"]
    /\ UNCHANGED <<store, chanVars, handlerVars, pollerVars, configVars, libraryVars, fan, oneshot,
                   watch_tasks, sync_tasks>>

\* select_all(vec![index_task, watch_tasks]).await: the first task found
\* finished, the index task being looked at first; then cancel_task! of the
\* other one.
RunAllSelect ==
    /\ ra.pc = "select"
    /\ \/ /\ idx.pc = "done"
          /\ wt' = cancel_watch(wt)
          /\ UNCHANGED idx
       \/ /\ idx.pc # "done"
          /\ wt.pc = "done"
          /\ idx' = cancel_job(idx)
          /\ UNCHANGED wt
    /\ ra' = [ra EXCEPT !.pc = "shutdown"]
    /\ UNCHANGED <<store, chanVars, handlerVars, pollerVars, configVars, libraryVars, fan, oneshot,
                   watch_tasks, sync_tasks>>

\* A shutdown that drains watch_tasks only.
RunAllShutdown_skips_sync_tasks ==
    /\ ra.pc = "shutdown"
    /\ \/ /\ watch_tasks # {}
          /\ \E name \in watch_tasks :
                /\ watch_tasks' = watch_tasks \ {name}
                /\ cw' = [cw EXCEPT ![name] = cancel_task(@)]
          /\ UNCHANGED <<hs, sync_tasks, ra>>
       \/ /\ watch_tasks = {}
          /\ ra' = [ra EXCEPT !.pc = "try_recv"]
          /\ UNCHANGED <<pollerVars, watch_tasks, sync_tasks>>
    /\ UNCHANGED <<store, chanVars, handlerVars, configVars, libraryVars, fan, idx, wt, oneshot>>

\* self.shutdown(): one cancel_task! of a handle drained from watch_tasks,
\* then of one drained from sync_tasks.
RunAllShutdown ==
    /\ ra.pc = "shutdown"
    /\ \/ /\ watch_tasks # {}
          /\ \E name \in watch_tasks :
                /\ watch_tasks' = watch_tasks \ {name}
                /\ cw' = [cw EXCEPT ![name] = cancel_task(@)]
          /\ UNCHANGED <<hs, sync_tasks, ra>>
       \/ /\ watch_tasks = {}
          /\ sync_tasks # {}
          /\ \E name \in sync_tasks :
                /\ sync_tasks' = sync_tasks \ {name}
                /\ hs' = [hs EXCEPT ![name] = cancel_task(@)]
          /\ UNCHANGED <<cw, watch_tasks, ra>>
       \/ /\ watch_tasks = {}
          /\ sync_tasks = {}
          /\ ra' = [ra EXCEPT !.pc = "try_recv"]
          /\ UNCHANGED <<pollerVars, watch_tasks, sync_tasks>>
    /\ UNCHANGED <<store, chanVars, handlerVars, configVars, libraryVars, fan, idx, wt, oneshot>>

\* A try_recv whose Err(_) arm bails like the Ok arm.
RunAllTryRecv_bails_on_empty ==
    /\ ra.pc = "try_recv"
    /\ IF oneshot # NoDouble
       THEN /\ fan' = handle_failure(oneshot)
            /\ ra' = [ra EXCEPT !.pc = "handle_failure"]
       ELSE /\ ra' = Job("done", "Err: Double update detected!")
            /\ UNCHANGED fan
    /\ UNCHANGED <<store, chanVars, handlerVars, pollerVars, configVars, libraryVars, idx, wt,
                   oneshot, watch_tasks, sync_tasks>>

\* double_update_rx.try_recv(): Ok(double_update) starts handle_failure,
\* Err(_) ends run_all with Ok(()).
RunAllTryRecv ==
    /\ ra.pc = "try_recv"
    /\ IF oneshot # NoDouble
       THEN /\ fan' = handle_failure(oneshot)
            /\ ra' = [ra EXCEPT !.pc = "handle_failure"]
       ELSE /\ ra' = Job("done", "Ok")
            /\ UNCHANGED fan
    /\ UNCHANGED <<store, chanVars, handlerVars, pollerVars, configVars, libraryVars, idx, wt,
                   oneshot, watch_tasks, sync_tasks>>

\* handle_failure has returned: bail!("Double update detected! ..."); it has
\* panicked: so does run_all.
RunAllBail ==
    /\ ra.pc = "handle_failure"
    /\ fan.pc \in {"done", "panic"}
    /\ ra' = Job("done", IF fan.pc = "done" THEN "Err: Double update detected!" ELSE "Panic")
    /\ UNCHANGED <<store, chanVars, handlerVars, pollerVars, configVars, libraryVars, fan, idx, wt,
                   oneshot, watch_tasks, sync_tasks>>

\* run_all up to select_all: the index task and the run_watch_tasks task are
\* spawned, the one-shot channel is empty.  The agent is run with no replica
\* or with one, with MaxManagers connection managers, and on a home whose
\* updater has signed every update of the zero root (a fork at the first
\* update); the walks over longer chains are those of SpecWatcher and SpecSync.
InitAgent ==
    /\ store = EmptyStore
    /\ chan = <<>>
    /\ sent = 0
    /\ testTx = FALSE
    /\ testRx = FALSE
    /\ hPc = "absent"
    /\ hUpdate = NoUpdate
    /\ hResult = Pending
    /\ hReceived = {}
    /\ hTrace = NoTrace
    /\ cw = [c \in Contracts |-> NoTask]
    /\ hs = [c \in Contracts |-> NoTask]
    /\ replicas \in {<<>>, <<1>>}
    /\ managers = MaxManagers
    /\ signed = {u \in SignedUpdate : u.home_domain = HomeDomain /\ u.previous_root = ZeroRoot}
    /\ tracing = FALSE
    /\ following = FALSE
    /\ fan = FanIdle
    /\ NoLibrary
    /\ idx = Job("running", "Pending")
    /\ wt = WatchJob("start", 1, FALSE, "Pending")
    /\ ra = Job("select", "Pending")
    /\ oneshot = NoDouble
    /\ watch_tasks = {}
    /\ sync_tasks = {}

NextAgent ==
    \/ WatchStart
    \/ WatchReplica
    \/ WatchHome
    \/ WatchHandlerResolved
    \/ WatchCancelHomeSync
    \/ WatchSend
    \/ IndexSyncUpdates
    \/ IndexEnds
    \/ RunAllSelect
    \/ RunAllShutdown
    \/ RunAllTryRecv
    \/ RunAllBail
    \/ HandlerRecv
    \/ HandlerCommittedRoot
    \/ HandlerRelay
    \/ \E c \in Contracts : WatcherPoll(c)
    \/ \E c \in Contracts : WatcherSend(c)
    \/ \E c \in Contracts : SyncPoll(c)
    \/ \E c \in Contracts : SyncSend(c)
    \/ FanoutUpdater
    \/ FanoutSign
    \/ \E c \in Contracts : FanoutDoubleUpdateReturns(c)
    \/ \E m \in Managers : FanoutUnenrollReturns(m)
    \/ FanoutJoin

SpecAgent == InitAgent /\ [][NextAgent]_vars

\* The executor runs every task that can take a step: the steps of run_all,
\* of the run_watch_tasks task, of the handler and of handle_failure, and the
\* pollers' sends.  Nothing makes the index task end or an adapter answer
\* with an update or an error.
FairAgent ==
    /\ WF_vars(WatchStart) /\ WF_vars(WatchReplica) /\ WF_vars(WatchHome)
    /\ WF_vars(WatchHandlerResolved) /\ WF_vars(WatchCancelHomeSync) /\ WF_vars(WatchSend)
    /\ WF_vars(RunAllSelect) /\ WF_vars(RunAllShutdown)
    /\ WF_vars(RunAllTryRecv) /\ WF_vars(RunAllBail)
    /\ WF_vars(HandlerRecv) /\ WF_vars(HandlerCommittedRoot) /\ WF_vars(HandlerRelay)
    /\ WF_vars(FanoutUpdater) /\ WF_vars(FanoutSign) /\ WF_vars(FanoutJoin)
    /\ \A c \in Contracts :
          /\ WF_vars(WatcherSend(c)) /\ WF_vars(SyncSend(c))
          /\ WF_vars(FanoutDoubleUpdateReturns(c))
    /\ \A m \in Managers : WF_vars(FanoutUnenrollReturns(m))

SpecAgentLive == SpecAgent /\ FairAgent

\* ================================================================== claims
Last(q) == q[Len(q)]

\* Two updates conflict in the sense of the handler: same previous_root,
\* different new_root.
SameKeyOtherRoot(a, b) ==
    a.previous_root = b.previous_root /\ a.new_root # b.new_root

\* The handler has finished the loop iteration of the update in hUpdate.
IterationOver == hUpdate # NoUpdate /\ hPc \in {"recv", "done"}

\* ------------------------------------------------------------ UpdateHandler
\* C1: as soon as the handler has processed an update u2 whose previous_root
\* equals that of an earlier processed update u1 and whose new_root differs,
\* it has terminated with a DoubleUpdate: the update persisted under that
\* previous_root in the first slot, u2 in the second.
C1_ConflictDetectionSoundness ==
    \A u1 \in hReceived :
        (IterationOver /\ SameKeyOtherRoot(u1, hUpdate))
            => /\ hPc = "done"
               /\ hResult.tag = "Ok"
               /\ hResult.double.first = store[hUpdate.previous_root]
               /\ SameKeyOtherRoot(hResult.double.first, hUpdate)
               /\ hResult.double.second = hUpdate

\* C2: if the store held u1 before the handler received anything and the
\* first update u2 it receives has the same previous_root and another
\* new_root, the handler returns DoubleUpdate(u1, u2).
C2_DetectionFromPersistedStore ==
    LET u1 == store[hUpdate.previous_root]
    IN  (IterationOver /\ hReceived = {} /\ u1 # NoUpdate
            /\ SameKeyOtherRoot(u1, hUpdate))
            => (hPc = "done" /\ hResult = OkDouble(DoubleUpdate(u1, hUpdate)))

\* The handler is working on an update whose previous_root and new_root are
\* those of the update persisted under that previous_root.
HandlingDuplicate ==
    /\ hPc \in {"root", "relay"}
    /\ store[hUpdate.previous_root] # NoUpdate
    /\ store[hUpdate.previous_root].new_root = hUpdate.new_root

\* C5: while the handler works on a duplicate of a persisted update, no step
\* changes the store, none produces a DoubleUpdate, and the handler stays in
\* its loop.
C5_DuplicateIdempotence ==
    [][HandlingDuplicate => (store' = store /\ hResult' = Pending /\ hPc' # "done")]_vars

\* ---------------------------------------------------------- ContractWatcher
PreviousRoots(q) == [i \in 1..Len(q) |-> q[i].previous_root]
NewRoots(q) == [i \in 1..Len(q) |-> q[i].new_root]

\* C8 as stated: after the answers S->S', S'->S'', None, the emitted updates
\* have the previous_root values S, S', S''.
C8_ForwardWalk_ThreePreviousRoots ==
    LET w == cw[Home]
    IN  (Len(w.returned) = 2 /\ Len(w.emitted) = 2 /\ w.lastAnswer = "none")
            => PreviousRoots(w.emitted)
                 = <<w.from, w.returned[1].new_root, w.returned[2].new_root>>

\* C8 amended: the emitted updates are the adapter's answers in order, their
\* previous_root values are the roots the watcher stood on when it asked (S,
\* S', ...), their new_root values the roots it moved to (S', S'', ...);
\* committed_root is the new_root of the last answer, also after a None.
C8_MonotoneForwardWalk ==
    LET w == cw[Home]
        n == Len(w.emitted)
    IN  /\ n <= Len(w.returned)
        /\ \A i \in 1..n : w.emitted[i] = w.returned[i]
        /\ PreviousRoots(w.emitted) = [i \in 1..n |-> (<<w.from>> \o NewRoots(w.emitted))[i]]
        /\ (n > 0 /\ w.pc = "poll") => w.committed_root = Last(w.emitted).new_root
        /\ (n = 0 /\ w.pc = "poll") => w.committed_root = w.from

C8_Witness ==
    LET w == cw[Home]
    IN  /\ Len(w.emitted) = 2
        /\ w.lastAnswer = "none"
        /\ w.pc = "poll"
        /\ w.from # w.committed_root

\* C9: while the channel is open the watcher delivers every update its
\* adapter returned exactly once and in order, each one extending the one
\* delivered before it (the first one the starting root), and it is polling
\* only when everything returned so far was delivered.
C9_ExactlyOnceNoSkippedLink ==
    LET w == cw[Home]
        n == Len(w.emitted)
    IN  /\ \A i \in 1..n :
              w.emitted[i].previous_root
                  = IF i = 1 THEN w.from ELSE w.emitted[i - 1].new_root
        /\ w.pc = "poll" => w.emitted = w.returned
        /\ w.pc = "send" => w.returned = Append(w.emitted, w.pending)
        /\ w.pc = "done" => Len(w.returned) <= n + 1

C9_Witness ==
    LET w == cw[Home]
    IN  /\ Len(w.emitted) = 2
        /\ w.pc = "poll"
        /\ w.emitted[1] # w.emitted[2]
        /\ ReceiverAlive

\* -------------------------------------------------------------- HistorySync
\* C10: the HistorySync is finished with Ok(()), asks and sends nothing more,
\* once its adapter has answered None or once it has emitted an update whose
\* previous_root is the zero root.
C10_BackwardWalkTermination ==
    LET h == hs[Home]
        finished == /\ h.pc = "done"
                    /\ h.result = "Ok"
                    /\ ~ENABLED SyncPoll(Home)
                    /\ ~ENABLED SyncSend(Home)
    IN  /\ h.lastAnswer = "none" => finished
        /\ (h.emitted # <<>> /\ Last(h.emitted).previous_root = ZeroRoot) => finished

C10_Witness ==
    LET h == hs[Home]
    IN  /\ Len(h.emitted) = 2
        /\ Last(h.emitted).previous_root = ZeroRoot
        /\ h.pc = "done"
        /\ h.result = "Ok"

\* ------------------------------------------------------------ handle_failure
DoubleUpdateTargets == {Home} \cup Range(replicas)
UnenrollTargets == 1..managers

EachTargetCalledOnce ==
    /\ \A c \in Contracts : fan.duCalls[c] = IF c \in DoubleUpdateTargets THEN 1 ELSE 0
    /\ \A m \in Managers : fan.unCalls[m] = IF m \in UnenrollTargets THEN 1 ELSE 0

DoubleUpdateDetected == "Err: Double update detected!"

RunAllEnded == ra.pc = "done"

\* C3: whenever the UpdateHandler has terminated with a DoubleUpdate D, the
\* run_all that ends afterwards has invoked handle_failure(D) and ends with a
\* failure result, whatever the interleaving of the handler, the
\* run_watch_tasks task and the index task.
C3_DoubleUpdateReachesHandleFailure ==
    [][(hResult.tag = "Ok" /\ ~RunAllEnded /\ RunAllEnded')
            => /\ fan.pc # "idle"
               /\ fan.double = hResult.double
               /\ ra'.result # "Ok"]_vars

\* C6: when the UpdateHandler has terminated because the update channel
\* closed, the run_all that ends afterwards ends with an error result.
C6_ChannelClosedEndsWithError ==
    [][(hResult = Err("Channel closed.") /\ ~RunAllEnded /\ RunAllEnded')
            => ra'.result # "Ok"]_vars

\* C7: run_all ends with the "double update detected" error only if a
\* DoubleUpdate was put in the one-shot channel and handle_failure ran on it to
\* its end; while no DoubleUpdate was sent handle_failure is not invoked, and a
\* run_all that ends then returns Ok(()).
C7_ExitSignalling ==
    /\ (RunAllEnded /\ ra.result = DoubleUpdateDetected)
            => /\ oneshot # NoDouble
               /\ fan.double = oneshot
               /\ fan.pc = "done"
    /\ oneshot = NoDouble
            => /\ fan.pc = "idle"
               /\ RunAllEnded => ra.result = "Ok"

C7_Witness ==
    /\ RunAllEnded
    /\ ra.result = DoubleUpdateDetected
    /\ idx.pc = "cancelled"
    /\ fan.double = oneshot

\* --------------------------------------------- handle_failure: the vector
\* C11 as stated: the returned vector has length N+1+M, the home's
\* double_update outcome first, then those of the N replicas, then the M
\* unenroll_replica outcomes in connection-manager order.
C11_ResultOrder_HomeFirst ==
    fan.pc = "done" =>
        LET n == Len(replicas)
        IN  /\ Len(fan.res) = n + 1 + managers
            /\ fan.res[1] = Outcome("double_update", Home, fan.duOut[Home])
            /\ \A i \in 1..n :
                  fan.res[1 + i] = Outcome("double_update", replicas[i], fan.duOut[replicas[i]])
            /\ \A j \in 1..managers :
                  fan.res[n + 1 + j] = Outcome("unenroll_replica", j, fan.unOut[j])

\* C11 amended: the returned vector has length N+1+M: the N replica
\* double_update outcomes in the order the replicas are iterated, then the
\* home's double_update outcome, then the M unenroll_replica outcomes in
\* connection-manager order.
C11_ResultOrder ==
    fan.pc = "done" =>
        LET n == Len(replicas)
        IN  /\ Len(fan.res) = n + 1 + managers
            /\ \A i \in 1..n :
                  fan.res[i] = Outcome("double_update", replicas[i], fan.duOut[replicas[i]])
            /\ fan.res[n + 1] = Outcome("double_update", Home, fan.duOut[Home])
            /\ \A j \in 1..managers :
                  fan.res[n + 1 + j] = Outcome("unenroll_replica", j, fan.unOut[j])
            /\ \A i, j \in 1..Len(fan.res) :
                  (fan.res[i].call = "double_update" /\ fan.res[j].call = "unenroll_replica")
                      => i < j

C11_Witness ==
    /\ fan.pc = "done"
    /\ Len(replicas) = MaxReplicas
    /\ managers = MaxManagers
    /\ fan.res[1].target # Home
    /\ fan.res[1].outcome # fan.res[Len(replicas) + 1].outcome

\* C12: every double_update call handle_failure has issued carries the
\* DoubleUpdate it was given, every unenroll_replica call carries the one
\* notification made of the domain and the updater address the home answered
\* and signed by the Watcher's signer, and the home is asked for each of the
\* two once per fan-out.
C12_FanoutPayloads ==
    /\ \A c \in Contracts : fan.duCalls[c] > 0 => fan.duArg[c] = fan.double
    /\ \A m \in Managers :
          fan.unCalls[m] > 0 =>
              /\ fan.unArg[m].notification.home_domain = fan.local_domain
              /\ fan.unArg[m].notification.updater = fan.updater
              /\ fan.unArg[m].signer = WatcherSigner
    /\ \A m1, m2 \in Managers :
          (fan.unCalls[m1] > 0 /\ fan.unCalls[m2] > 0) => fan.unArg[m1] = fan.unArg[m2]
    /\ fan.pc # "idle" => (fan.domainCalls = 1 /\ fan.updaterCalls = 1)
    /\ fan.pc = "idle" => (fan.domainCalls = 0 /\ fan.updaterCalls = 0)

C12_Witness ==
    /\ fan.pc = "done"
    /\ managers = MaxManagers
    /\ managers > 0
    /\ fan.local_domain # HomeDomain
    /\ \A m \in UnenrollTargets : fan.unArg[m].notification.updater = "updater_b"
    /\ \A c \in DoubleUpdateTargets : fan.duArg[c] = fan.double

\* ------------------------------------------------ UpdateHandler: the relay
\* C13: for a message whose previous_root is the root the home answered, the
\* handler calls home.update once, and whatever the call returns the handler
\* goes on to the store check of that message and is not ended by the call;
\* for a message whose previous_root is another root home.update is not
\* called.
C13_OpportunisticRelay ==
    /\ hTrace.updateCalls <= 1
    /\ (hTrace.answered /\ hTrace.committed = hUpdate.previous_root)
            => hTrace.updateCalls = 1
    /\ (hTrace.answered /\ hTrace.committed # hUpdate.previous_root)
            => (hTrace.updateCalls = 0 /\ hTrace.outcome = "none")
    /\ hPc = "relay" => (hTrace.updateCalls = 1 /\ hTrace.outcome = "none")
    /\ hTrace.outcome # "none"
            => /\ hTrace.updateCalls = 1
               /\ hTrace.checked
               /\ hResult.tag # "Err"
               /\ hResult = Pending => hPc = "recv"

C13_Witness ==
    /\ hTrace.outcome = "error"
    /\ hTrace.updateCalls = 1
    /\ hPc = "recv"
    /\ store[hUpdate.previous_root] = hUpdate

\* ---------------------------------------------------------------- the store
\* C14: once the store holds an update under a previous_root, no step of the
\* running agent changes the value under that previous_root.
C14_PersistenceMonotone ==
    [][\A p \in Roots : store[p] # NoUpdate => store'[p] = store[p]]_vars

C16_DoubleUpdateIsConflict ==
    hResult.tag = "Ok" =>
        LET a == hResult.double.first
            b == hResult.double.second
        IN  /\ a.home_domain = b.home_domain
            /\ a.previous_root = b.previous_root
            /\ a.new_root # b.new_root

\* C17: in one run of the agent at most one DoubleUpdate is produced: once
\* the handler has returned one it receives nothing more and its result
\* stays, the one-shot channel only ever carries that value, and
\* handle_failure, once invoked, is not invoked again.
C17_AtMostOneDoubleUpdate ==
    [][/\ hResult.tag = "Ok" => (hResult' = hResult /\ hPc' = "done" /\ chan' = chan)
       /\ oneshot # NoDouble => (oneshot' = oneshot /\ oneshot = hResult.double)
       /\ fan.pc # "idle" => (fan'.double = fan.double /\ fan'.double = oneshot
                                /\ fan'.updaterCalls = 1)]_vars

C17_Witness ==
    /\ fan.pc = "done"
    /\ oneshot # NoDouble
    /\ hPc = "done"
    /\ chan # <<>>

\* The updates the handler has taken from the channel so far.
Taken == (hReceived \cup {hUpdate}) \ {NoUpdate}

\* C18: whatever the order in which the updates arrived, once the handler has
\* processed a set of updates that holds two with the same previous_root and
\* different new_root it has returned a DoubleUpdate, and the pair it holds
\* is a conflicting pair of that set (or of the set and the store).
C18_DetectionIndependentOfOrder ==
    (IterationOver /\ \E a, b \in Taken : SameKeyOtherRoot(a, b))
        => /\ hResult.tag = "Ok"
           /\ SameKeyOtherRoot(hResult.double.first, hResult.double.second)
           /\ hResult.double.second \in Taken
           /\ \/ hResult.double.first \in Taken
              \/ hResult.double.first = store[hResult.double.first.previous_root]

\* ------------------------------------------------------- the pollers' errors
\* C19: when a ContractWatcher has ended with an error, run_all comes to its
\* end (the supervisor has observed the error and the agent exits).
C19_PollerErrorEndsAgent ==
    (\E c \in Contracts : cw[c].result = "Err") ~> RunAllEnded

\* ------------------------------------------------------ run_all: the wind-down
\* run_all is past shutdown(): at try_recv, in handle_failure, or returned.
PastShutdown == ra.pc \in {"try_recv", "handle_failure", "done"}

\* C20: when run_all returns, and when handle_failure is invoked, neither the
\* index task nor the run_watch_tasks task is running, no poller whose handle
\* was recorded in watch_tasks or sync_tasks is running, and both registries
\* are empty.
C20_CancelledBeforeExit ==
    /\ fan.pc # "idle" => PastShutdown
    /\ PastShutdown =>
          /\ idx.pc \in {"done", "cancelled"}
          /\ wt.pc \in {"done", "cancelled"}
          /\ watch_tasks = {}
          /\ sync_tasks = {}
          /\ \A name \in Range(replicas) : ~Running(cw[name]) /\ ~Running(hs[name])

C20_Witness ==
    /\ ra.pc = "handle_failure"
    /\ idx.pc = "cancelled"
    /\ replicas # <<>>
    /\ \A name \in Range(replicas) : cw[name].pc = "cancelled" /\ hs[name].pc = "cancelled"

\* ------------------------------------------------- the store: who writes it
\* C21: while the agent runs, every step that changes an entry of the store
\* is the UpdateHandler's: it is the handler's check of the update it holds,
\* which files that update and goes back to receiving.
C21_HandlerSoleWriter ==
    [][store' # store
          => /\ hPc \in {"root", "relay"}
             /\ hPc' = "recv"
             /\ store' = store_latest_update(store, hUpdate)]_vars

\* ------------------------------------------------------- the update channel
\* A step that puts the update poller task t was holding at the tail of the
\* buffer.
Accepts(t, tNext) ==
    /\ t.pc = "send"
    /\ tNext.pc # "send"
    /\ chan' = Append(chan, t.pending)

\* C22: the channel never holds more than 200 updates; a poller whose send
\* finds it full stays suspended, the update in its hands, while the handler
\* has not received; and the buffer changes only by one poller's update being
\* put at its tail or by the handler taking its head, so that what the channel
\* accepted reaches the draining handler once and in the order of acceptance.
C22_BoundedLosslessChannel ==
    [][/\ Len(chan') <= ChannelCapacity
       /\ \A c \in Contracts :
             (Len(chan) = ChannelCapacity /\ ReceiverAlive)
                 => /\ cw[c].pc = "send" => cw'[c] = cw[c]
                    /\ hs[c].pc = "send" => hs'[c] = hs[c]
       /\ \/ chan' = chan
          \/ \E c \in Contracts : Accepts(cw[c], cw'[c]) /\ hs' = hs
          \/ \E c \in Contracts : Accepts(hs[c], hs'[c]) /\ cw' = cw
          \/ /\ chan # <<>>
             /\ hPc = "recv"
             /\ hUpdate' = Head(chan)
             /\ chan' = Tail(chan)]_vars

C22_Witness ==
    /\ Len(chan) = ChannelCapacity
    /\ hUpdate # NoUpdate
    /\ sent = 2
    /\ cw[Home].pc = "poll"
    /\ hs[Home].pc = "poll"
    /\ chan[ChannelCapacity] # chan[ChannelCapacity - 1]

\* ------------------------------------------- UpdateHandler: how it terminates
\* The handler is draining: spawned and not terminated.
Draining == hPc \in {"recv", "root", "relay"}

\* C23: the handler is draining or terminated, and every step that takes it
\* out of draining is either the return of a DoubleUpdate made of the update
\* the store held under the received update's previous_root and the received
\* update, or the error of a receive on the closed channel (a store error
\* apart, which panics the task); in particular the committed_root query made
\* for the relay does not end the handler.
C23_HandlerStateMachine ==
    [][(Draining /\ ~Draining')
          => /\ hPc' = "done"
             /\ \/ /\ hResult' = OkDouble(DoubleUpdate(store[hUpdate.previous_root], hUpdate))
                   /\ SameKeyOtherRoot(store[hUpdate.previous_root], hUpdate)
                \/ /\ hResult' = Err("Channel closed.")
                   /\ hPc = "recv"
                   /\ chan = <<>>
                   /\ SenderCount = 0
                \/ hResult'.tag = "Panic"]_vars

\* ------------------------------------------------- HistorySync: the walk back
\* C24: every update the adapter answers to the HistorySync is sent
\* downstream, in the order of the answers, and committed_root is then the
\* previous_root of that update; each emitted update's new_root is the
\* previous_root of the one emitted just before it (the first one's is the
\* starting root); and, the channel being open, the task ends only when all
\* the answers were emitted, the one whose previous_root is the zero root
\* included.
C24_ReverseChronologicalWalk ==
    LET h == hs[Home]
        n == Len(h.emitted)
    IN  /\ n <= Len(h.returned)
        /\ \A i \in 1..n : h.emitted[i] = h.returned[i]
        /\ \A i \in 1..n :
              h.emitted[i].new_root
                  = IF i = 1 THEN h.from ELSE h.emitted[i - 1].previous_root
        /\ h.pc = "send" =>
              /\ h.returned = Append(h.emitted, h.pending)
              /\ h.committed_root = h.pending.previous_root
        /\ h.pc = "poll" =>
              /\ h.emitted = h.returned
              /\ h.committed_root = IF n = 0 THEN h.from ELSE Last(h.emitted).previous_root
              /\ h.committed_root # ZeroRoot \/ n = 0
        /\ (h.pc = "done" /\ testRx) => h.emitted = h.returned

C24_Witness ==
    LET h == hs[Home]
    IN  /\ h.pc = "done"
        /\ testRx
        /\ Len(h.emitted) = 2
        /\ h.emitted[2].new_root = h.emitted[1].previous_root
        /\ h.emitted[2].previous_root = ZeroRoot
        /\ h.from # ZeroRoot
        /\ h.lastAnswer = "some"

\* ------------------------------------------------ ContractWatcher: its errors
\* C25: the step in which the adapter answers the ContractWatcher with an
\* error, and the step in which its send finds the channel closed, end the
\* task with an error; an ended task takes no further step (no query, no
\* send); and an update is handed to send once: the task is in send only
\* after a new answer of the adapter, and the step that resolves the send,
\* delivered or not, leaves the update behind.
C25_WatcherErrorsAreFatal ==
    [][LET w == cw[Home]
           wNext == cw'[Home]
       IN  /\ wNext.lastAnswer = "error" => (wNext.pc = "done" /\ wNext.result = "Err")
           /\ (w.pc = "send" /\ ~ReceiverAlive /\ wNext # w)
                 => (wNext.pc = "done" /\ wNext.result = "Err" /\ chan' = chan)
           /\ w.pc = "done" => wNext = w
           /\ (w.pc = "send" /\ wNext # w)
                 => (wNext.pc # "send" /\ wNext.pending = NoUpdate)
           /\ (w.pc # "send" /\ wNext.pc = "send")
                 => (w.pc = "poll" /\ wNext.returned = Append(w.returned, wNext.pending))]_vars

C25_Witness ==
    LET w == cw[Home]
    IN  /\ w.pc = "done"
        /\ w.result = "Err"
        /\ ~testRx
        /\ Len(w.emitted) = 1
        /\ Len(w.returned) = 2
        /\ w.lastAnswer = "some"

\* ------------------------------------------- HistorySync: at the zero root
\* C26: a HistorySync that stands on the zero root asks the adapter nothing
\* and emits nothing more: one started at the zero root never queries and
\* never emits, and one that has emitted the update whose previous_root is the
\* zero root has ended with no further answer of the adapter.
C26_NoQueryAtZeroRoot ==
    LET h == hs[Home]
    IN  /\ h.from = ZeroRoot
              => (h.lastAnswer = "" /\ h.returned = <<>> /\ h.emitted = <<>>)
        /\ (h.emitted # <<>> /\ Last(h.emitted).previous_root = ZeroRoot)
              => (h.pc = "done" /\ h.returned = h.emitted)

\* ------------------------------------------------------ run_all: the race
\* One of the two tasks run_all races has completed.
RaceOver == idx.pc = "done" \/ wt.pc = "done"

\* C27: run_all leaves select_all for the shutdown exactly when the index
\* task or the run_watch_tasks task has completed, with Ok or with an error:
\* it can go on as soon as one has, and it does not move before; and the
\* run_watch_tasks task completes only when the UpdateHandler has resolved,
\* or with the error of a committed_root query of its start-up.
C27_FirstCompletionStartsShutdown ==
    [][/\ (ra.pc = "select" /\ RaceOver) => ENABLED RunAllSelect
       /\ (ra.pc = "select" /\ ~RaceOver) => ra' = ra
       /\ (ra.pc = "select" /\ ra' # ra) => (RaceOver /\ ra'.pc = "shutdown")
       /\ (wt.pc # "done" /\ wt'.pc = "done")
             => \/ hPc = "done"
                \/ /\ wt.pc \in {"replica_root", "home_root"}
                   /\ wt'.result = "Err"]_vars

C27_Witness ==
    /\ ra.pc = "shutdown"
    /\ wt.pc = "done"
    /\ wt.result = "Err"
    /\ hPc = "recv"
    /\ idx.pc = "cancelled"
    /\ watch_tasks # {}

\* ------------------------------------------------ run_watch_tasks: the start-up
\* The run_watch_tasks task is past its start-up: every poller is spawned.
StartedUp == wt.pc \in {"await_handler", "cancel_home_sync", "send"}

\* The replicas whose pollers the start-up loop has spawned so far.
SpawnedReplicas == {replicas[j] : j \in 1..(wt.i - 1)}

\* C28: a poller is spawned only when the UpdateHandler has been; the two
\* pollers of a contract are spawned in one step of the start-up, after its
\* one committed_root answer, both standing on the same root, and never a
\* second time; the registries hold the replicas spawned so far, after the
\* start-up one handle per replica each, and never one of the home, whose
\* pollers exist once the start-up is over.
C28_StartupOrderAndRegistries ==
    [][/\ \A c \in Contracts :
             (cw'[c].pc # "absent" \/ hs'[c].pc # "absent") => hPc' # "absent"
       /\ \A c \in Contracts :
             (cw[c].pc = "absent" /\ cw'[c].pc # "absent")
                 \/ (hs[c].pc = "absent" /\ hs'[c].pc # "absent")
                 \/ (wt' # wt /\ wt.pc \in {"replica_root", "home_root"}
                       /\ (cw'[c] # cw[c] \/ hs'[c] # hs[c]))
             => /\ cw[c].pc = "absent" /\ hs[c].pc = "absent"
                /\ cw'[c].pc = "poll" /\ hs'[c].pc = "poll"
                /\ cw'[c].committed_root = hs'[c].committed_root
                /\ c = IF wt.pc = "replica_root" THEN replicas[wt.i] ELSE Home
                /\ wt.pc \in {"replica_root", "home_root"}
       /\ Home \notin watch_tasks' \cup sync_tasks'
       /\ wt'.pc \in {"replica_root", "home_root"}
             => (watch_tasks' = SpawnedReplicas' /\ sync_tasks' = SpawnedReplicas')
       /\ StartedUp'
             => /\ watch_tasks' = Range(replicas)
                /\ sync_tasks' = Range(replicas)
                /\ Cardinality(watch_tasks') = Len(replicas)
                /\ \A c \in {Home} \cup Range(replicas) :
                      cw'[c].pc # "absent" /\ hs'[c].pc # "absent"]_vars

C28_Witness ==
    /\ wt.pc = "await_handler"
    /\ hPc = "recv"
    /\ replicas # <<>>
    /\ watch_tasks = Range(replicas)
    /\ cw[Home].pc = "poll" /\ hs[Home].pc = "poll"
    /\ \E name \in Range(replicas) :
          /\ cw[name].pc = "poll" /\ hs[name].pc = "poll"
          /\ cw[name].committed_root = hs[name].committed_root
          /\ cw[name].committed_root # cw[Home].committed_root

\* --------------------------------------------- UpdateHandler: a store error
HandlerPanicked == hResult.tag = "Panic"

\* C29: the step in which a store error panics the handler is a step of its
\* check that writes nothing and returns no DoubleUpdate; the panicked handler
\* takes no further step; the run_watch_tasks task that awaits it ends with an
\* error at that await, without going on to the one-shot send; and nothing is
\* ever put in the one-shot channel, so handle_failure is not invoked.
C29_StoreErrorPanicsHandler ==
    [][/\ (~HandlerPanicked /\ HandlerPanicked')
             => /\ hPc \in {"root", "relay"}
                /\ hPc' = "done"
                /\ store' = store
                /\ hResult'.double = NoDouble
       /\ HandlerPanicked
             => /\ UNCHANGED handlerVars
                /\ oneshot' = NoDouble
                /\ fan' = FanIdle
                /\ wt'.pc \notin {"cancel_home_sync", "send"}
                /\ (wt.pc = "await_handler" /\ wt' # wt)
                      => (wt' = WatchEnds("Err") \/ wt' = cancel_watch(wt))
                /\ wt.pc = "done" => (wt' = wt /\ wt.result = "Err")]_vars

C29_Witness ==
    /\ HandlerPanicked
    /\ wt.pc = "done"
    /\ wt.result = "Err"
    /\ store # EmptyStore
    /\ hUpdate # NoUpdate
    /\ cw[Home].pc # "absent"
    /\ ra.pc = "done"

\* ------------------------------------------- the Ethereum home adapter's lookups
\* C30: on the Ethereum home the two lookups never answer None; while the
\* store holds no update for the root asked for, the poller stays suspended
\* in the lookup unless a store error is returned, which ends the call as an
\* error; and when a lookup returns an update it is the one the store holds
\* for that root.
C30_LookupBlocksUntilPresent ==
    [][LET w == cw[Home]
           wNext == cw'[Home]
           h == hs[Home]
           hNext == hs'[Home]
       IN  /\ wNext.lastAnswer # "none" /\ hNext.lastAnswer # "none"
           /\ (w.pc = "poll" /\ update_by_previous_root(store, w.committed_root) = NoUpdate
                  /\ wNext # w)
                 => \/ wNext = [w EXCEPT !.lastAnswer = "sleep"]
                    \/ wNext.pc = "done" /\ wNext.lastAnswer = "error" /\ wNext.result = "Err"
           /\ (h.pc = "poll" /\ update_by_new_root(store, h.committed_root) = {}
                  /\ hNext # h)
                 => \/ hNext = [h EXCEPT !.lastAnswer = "sleep"]
                    \/ hNext.pc = "done" /\ hNext.lastAnswer = "error"
           /\ (w.pc = "poll" /\ wNext.pc = "send")
                 => /\ wNext.pending # NoUpdate
                    /\ wNext.pending = update_by_previous_root(store, w.committed_root)
                    /\ wNext.lastAnswer = "some"
           /\ (h.pc = "poll" /\ hNext.pc = "send")
                 => /\ hNext.pending \in update_by_new_root(store, h.committed_root)
                    /\ hNext.lastAnswer = "some"]_vars

C30_Witness ==
    LET w == cw[Home]
    IN  /\ w.pc = "poll"
        /\ w.lastAnswer = "sleep"
        /\ Len(w.emitted) = 1
        /\ update_by_previous_root(store, w.committed_root) = NoUpdate
        /\ idx.pc = "done"
        /\ hs[Home].lastAnswer = "sleep"

\* ------------------------------------------------- HistorySync: its result
\* C31: a HistorySync task that has ended has ended with Ok(()), and it has
\* no other result: after an adapter error, after the adapter's None, after
\* a send on the closed channel (an answer was left undelivered) and after
\* the update of the zero root alike.
C31_SyncAlwaysEndsOk ==
    LET h == hs[Home]
    IN  /\ h.result \in {"Pending", "Ok"}
        /\ h.pc = "done" <=> h.result = "Ok"
        /\ h.lastAnswer \in {"error", "none"} => h.result = "Ok"
        /\ (h.pc # "send" /\ Len(h.returned) > Len(h.emitted))
              => (h.result = "Ok" /\ ~testRx)

C31_Witness ==
    LET h == hs[Home]
    IN  /\ h.pc = "done"
        /\ h.result = "Ok"
        /\ ~testRx
        /\ Len(h.returned) = Len(h.emitted) + 1
        /\ h.returned[Len(h.returned)].previous_root # ZeroRoot

\* ----------------------------------- UpdateHandler: the relay before the check
\* C32: for each message the store check comes after the home's answer and,
\* when the answered root is the message's previous_root, after the
\* home.update call has returned: a DoubleUpdate is returned, and a duplicate
\* of the persisted update is passed over, only once the message was relayed.
C32_RelayBeforeCheck ==
    /\ hTrace.checked => hTrace.answered
    /\ (hTrace.checked /\ hTrace.committed = hUpdate.previous_root)
          => (hTrace.updateCalls = 1 /\ hTrace.outcome # "none")
    /\ hPc = "relay" => (~hTrace.checked /\ hResult = Pending)
    /\ hResult.tag = "Ok" => hTrace.checked
    /\ (hPc = "recv" /\ hUpdate # NoUpdate) => hTrace.checked

C32_Witness ==
    /\ hResult.tag = "Ok"
    /\ hResult.double.second = hUpdate
    /\ hTrace.committed = hUpdate.previous_root
    /\ hTrace.updateCalls = 1
    /\ hTrace.outcome = "executed"

\* --------------------------------------- handle_failure: nothing before signing
NoCallIssued ==
    /\ \A c \in Contracts : fan.duCalls[c] = 0 /\ fan.duOut[c] = "none"
    /\ \A m \in Managers : fan.unCalls[m] = 0 /\ fan.unOut[m] = "none"

\* C33: while handle_failure waits for home.updater() or for the signature
\* no double_update and no unenroll_replica call has been issued; a
\* handle_failure that panicked, on the updater's error or on the failed
\* signature, has issued none and returned nothing; and any call issued was
\* issued after the home answered its updater and the notification was
\* signed.
C33_NoCallBeforeSigning ==
    /\ fan.pc \in {"idle", "updater", "sign", "panic"} => NoCallIssued
    /\ fan.pc = "panic" => fan.res = <<>>
    /\ ~NoCallIssued
          => /\ fan.pc \in {"join", "done"}
             /\ fan.updater \in Updaters
             /\ fan.signed_failure = signed_failure

C33_Witness ==
    /\ fan.pc = "panic"
    /\ fan.updater \in Updaters
    /\ Len(replicas) = MaxReplicas
    /\ managers = MaxManagers
    /\ NoCallIssued

\* ------------------------------------- run_watch_tasks: the Sender it keeps
\* No poller is running: each has ended or was never spawned.
NoPollerRunning == \A c \in Contracts : ~Running(cw[c]) /\ ~Running(hs[c])

\* C34: while the run_watch_tasks task waits for the handler it holds a
\* Sender of the update channel, so the handler has not ended on a closed
\* channel; and when every poller has ended and the buffer is empty the
\* handler, waiting in recv, can take no step: it returns neither an error
\* nor a DoubleUpdate.
C34_SupervisorKeepsChannelOpen ==
    wt.pc = "await_handler"
        => /\ wt.tx
           /\ SenderCount >= 1
           /\ hResult # Err("Channel closed.")
           /\ (hPc = "recv" /\ chan = <<>>)
                 => (hResult = Pending /\ ~ENABLED HandlerRecv)

C34_Witness ==
    /\ wt.pc = "await_handler"
    /\ hPc = "recv"
    /\ chan = <<>>
    /\ NoPollerRunning
    /\ replicas # <<>>
    /\ \A c \in {Home} \cup Range(replicas) : cw[c].pc = "done" /\ hs[c].pc = "done"
    /\ hUpdate # NoUpdate

\* ------------------------------------------- run_all: what it does not cancel
\* A step of run_all: its position moves or a registry is drained.
RunAllStep == ra' # ra \/ watch_tasks' # watch_tasks \/ sync_tasks' # sync_tasks

\* C35: no step of run_all touches the home's ContractWatcher, the home's
\* HistorySync or the UpdateHandler; when the index task completed first the
\* step that leaves select_all cancels the run_watch_tasks task; the home's
\* pollers are cancelled only by the run_watch_tasks task, after the handler
\* has resolved, and then both are before its one-shot send.
C35_HomePollersOutliveRunAll ==
    [][/\ RunAllStep
             => /\ cw'[Home] = cw[Home]
                /\ hs'[Home] = hs[Home]
                /\ UNCHANGED handlerVars
       /\ (ra.pc = "select" /\ ra' # ra /\ idx.pc = "done")
             => (wt' = cancel_watch(wt) /\ wt'.pc \in {"done", "cancelled"})
       /\ (cw[Home].pc # "cancelled" /\ cw'[Home].pc = "cancelled")
             => (wt.pc = "await_handler" /\ hPc = "done")
       /\ (hs[Home].pc # "cancelled" /\ hs'[Home].pc = "cancelled")
             => (wt.pc = "cancel_home_sync" /\ hPc = "done")
       /\ wt'.pc = "send" => (~Running(cw'[Home]) /\ ~Running(hs'[Home]))]_vars

C35_Witness ==
    /\ ra.pc = "done"
    /\ idx.pc = "done"
    /\ wt.pc = "cancelled"
    /\ Running(cw[Home])
    /\ Running(hs[Home])
    /\ hPc = "recv"
    /\ replicas # <<>>
    /\ \A name \in Range(replicas) : cw[name].pc = "cancelled" /\ hs[name].pc = "cancelled"

\* ------------------------------------------------------------- HomeIndexer
\* optics-ethereum/src/home.rs, HomeIndexer::spawn.  Block heights are u32; the
\* model keeps U32Bits bits of a u32, so that next_height + chunk_size can
\* overflow within the bound.
U32Bits == 2
\* chunk_size is 1..MaxChunk.
MaxChunk == 2

U32Max == 2^U32Bits - 1
Heights == 0..U32Max

\* from_block(from).to_block(to): the blocks of an inclusive range.
BlockRange(from, to) == {h \in Heights : from <= h /\ h <= to}

\* db.retrieve_decodable(home_name, "", LAST_INSPECTED).unwrap_or(from_height)
resume_height(db, from_height) ==
    IF db.last_inspected = <<>> THEN from_height ELSE db.last_inspected[1]

\* next_height + self.chunk_size in u32: the sums the build can produce.  An
\* overflowing sum panics with overflow checks and wraps without them.
candidates(next_height, chunk_size) ==
    IF next_height + chunk_size <= U32Max
    THEN {<<"sum", next_height + chunk_size>>}
    ELSE {<<"panic", 0>>, <<"sum", (next_height + chunk_size) % (2^U32Bits)>>}

min(a, b) == IF a <= b THEN a ELSE b

\* The task returns or panics: its locals are gone.
IndexerEnded(result) ==
    [indexer EXCEPT !.pc = "done", !.result = result, !.next_height = 0,
                    !.tip = 0, !.to = 0,
                    !.sync_updates = "none", !.sync_leaves = "none"]

\* tokio::spawn(async move { ... }) up to the first await: the resume height
\* is read from the db (a db failure panics).  The task is spawned when the
\* process starts, and again after the task has ended or the process stopped.
IndexerSpawn ==
    /\ indexer.pc \in {"absent", "done", "stopped"}
    /\ \/ indexer' = [indexer EXCEPT !.pc = "tip",
                                     !.result = "Pending",
                                     !.next_height =
                                         resume_height(indexed, indexer.from_height)]
       \/ indexer' = IndexerEnded("Panic")
    /\ UNCHANGED <<store, chanVars, handlerVars, pollerVars, configVars, indexed,
                   invocation, fan, agentVars>>

\* self.provider.get_block_number().await? and the range of this iteration:
\* candidate = next_height + chunk_size, to = min(tip, candidate).  Both
\* sync_updates and sync_leaves are then polled by try_join!.
IndexerGetBlockNumber ==
    /\ indexer.pc = "tip"
    /\ \/ indexer' = IndexerEnded("Err")
       \/ \E tip \in Heights :
          \E candidate \in candidates(indexer.next_height, indexer.chunk_size) :
             indexer' =
                IF candidate[1] = "panic" THEN IndexerEnded("Panic")
                ELSE [indexer EXCEPT !.pc = "sync", !.tip = tip,
                                     !.to = min(tip, candidate[2]),
                                     !.sync_updates = "pending",
                                     !.sync_leaves = "pending"]
    /\ UNCHANGED <<store, chanVars, handlerVars, pollerVars, configVars, indexed,
                   invocation, fan, agentVars>>

\* The height store_encodable(.., LAST_INSPECTED, ..) is given.
persisted_height(ix) == ix.next_height

\* The code after try_join!(..)? once both branches are Ok: the resume height is
\* persisted (a db error ends the task), next_height becomes to, and the loop
\* sleeps when it has caught up with the tip.
IndexerJoined(db) ==
    \/ /\ indexed' = db
       /\ indexer' = IndexerEnded("Err")
    \/ /\ indexed' = [db EXCEPT !.last_inspected = <<persisted_height(indexer)>>]
       /\ indexer' = [indexer EXCEPT !.next_height = indexer.to,
                                     !.pc = IF indexer.to = indexer.tip
                                            THEN "sleep" ELSE "tip",
                                     !.tip = 0, !.to = 0,
                                     !.sync_updates = "none",
                                     !.sync_leaves = "none"]

\* The blocks of the range a failing sync has stored before its error: the
\* events are stored in block order, so these are the blocks below some height.
StoredBeforeError(from, to) ==
    {{h \in BlockRange(from, to) : h < k} : k \in Heights}

\* sync_updates with a join that does not stop at its error.
IndexerSyncUpdates_ignores_error ==
    /\ indexer.pc = "sync"
    /\ indexer.sync_updates = "pending"
    /\ \E stored \in StoredBeforeError(indexer.next_height, indexer.to)
                        \cup {BlockRange(indexer.next_height, indexer.to)} :
          LET db == [indexed EXCEPT !.updates = @ \cup stored]
          IN  IF indexer.sync_leaves = "ok"
              THEN IndexerJoined(db)
              ELSE /\ indexed' = db
                   /\ indexer' = [indexer EXCEPT !.sync_updates = "ok"]
    /\ UNCHANGED <<store, chanVars, handlerVars, pollerVars, configVars,
                   invocation, fan, agentVars>>

\* sync_updates(next_height, to) completes.  An error (of the query or of a db
\* write) makes try_join! return it at once and the ? ends the task; Ok
\* either waits for sync_leaves or completes the join.
IndexerSyncUpdates ==
    /\ indexer.pc = "sync"
    /\ indexer.sync_updates = "pending"
    /\ \/ \E stored \in StoredBeforeError(indexer.next_height, indexer.to) :
             /\ indexed' = [indexed EXCEPT !.updates = @ \cup stored]
             /\ indexer' = IndexerEnded("Err")
       \/ LET db == [indexed EXCEPT
                        !.updates = @ \cup BlockRange(indexer.next_height, indexer.to)]
          IN  IF indexer.sync_leaves = "ok"
              THEN IndexerJoined(db)
              ELSE /\ indexed' = db
                   /\ indexer' = [indexer EXCEPT !.sync_updates = "ok"]
    /\ UNCHANGED <<store, chanVars, handlerVars, pollerVars, configVars,
                   invocation, fan, agentVars>>

\* sync_leaves(next_height, to) completes, likewise.
IndexerSyncLeaves ==
    /\ indexer.pc = "sync"
    /\ indexer.sync_leaves = "pending"
    /\ \/ \E stored \in StoredBeforeError(indexer.next_height, indexer.to) :
             /\ indexed' = [indexed EXCEPT !.leaves = @ \cup stored]
             /\ indexer' = IndexerEnded("Err")
       \/ LET db == [indexed EXCEPT
                        !.leaves = @ \cup BlockRange(indexer.next_height, indexer.to)]
          IN  IF indexer.sync_updates = "ok"
              THEN IndexerJoined(db)
              ELSE /\ indexed' = db
                   /\ indexer' = [indexer EXCEPT !.sync_leaves = "ok"]
    /\ UNCHANGED <<store, chanVars, handlerVars, pollerVars, configVars,
                   invocation, fan, agentVars>>

\* sleep(Duration::from_secs(100)).await elapses: the next iteration begins.
IndexerWake ==
    /\ indexer.pc = "sleep"
    /\ indexer' = [indexer EXCEPT !.pc = "tip"]
    /\ UNCHANGED <<store, chanVars, handlerVars, pollerVars, configVars, indexed,
                   invocation, fan, agentVars>>

\* The process stops while the task is suspended at an await.
IndexerStop ==
    /\ indexer.pc \in {"tip", "sync", "sleep"}
    /\ indexer' = [IndexerEnded("Pending") EXCEPT !.pc = "stopped"]
    /\ UNCHANGED <<store, chanVars, handlerVars, pollerVars, configVars, indexed,
                   invocation, fan, agentVars>>

InitIndexer ==
    /\ store = EmptyStore
    /\ chan = <<>>
    /\ sent = 0
    /\ testTx = FALSE
    /\ testRx = FALSE
    /\ hPc = "absent"
    /\ hUpdate = NoUpdate
    /\ hResult = Pending
    /\ hReceived = {}
    /\ hTrace = NoTrace
    /\ cw = [c \in Contracts |-> NoTask]
    /\ hs = [c \in Contracts |-> NoTask]
    /\ replicas = <<>>
    /\ managers = 0
    /\ signed = SignedUpdate
    /\ tracing = FALSE
    /\ following = FALSE
    /\ fan = FanIdle
    /\ NoSupervisor
    /\ \E from_height \in {0, 1}, chunk_size \in 1..MaxChunk :
          indexer = [NoIndexer EXCEPT !.from_height = from_height,
                                      !.chunk_size = chunk_size]
    /\ indexed = NothingIndexed
    /\ invocation = NoCall

NextIndexer ==
    \/ IndexerSpawn
    \/ IndexerGetBlockNumber
    \/ IndexerSyncUpdates
    \/ IndexerSyncLeaves
    \/ IndexerWake
    \/ IndexerStop

SpecIndexer == InitIndexer /\ [][NextIndexer]_vars

\* The heights a restart resumes above: from from_height up to, not
\* including, the height the db would make the task resume at.
HeightsBelowResume ==
    {h \in Heights : indexer.from_height <= h
                     /\ h < resume_height(indexed, indexer.from_height)}

\* C36: the home indexer persists its resume height only in a step in which
\* both sync_updates and sync_leaves have succeeded for the current block
\* range, and the persisted value is the start of that range; so at every
\* point (where a stop and a restart may happen) the height a restart resumes
\* at is no greater than the first height, from from_height on, whose updates
\* or leaves may not have been stored.
C36_ResumeHeightNeverSkips ==
    [][/\ indexed'.last_inspected # indexed.last_inspected
            => /\ indexer.pc = "sync"
               /\ BlockRange(indexer.next_height, indexer.to)
                      \subseteq (indexed'.updates \cap indexed'.leaves)
               /\ indexed'.last_inspected = <<indexer.next_height>>
       /\ (HeightsBelowResume \subseteq (indexed.updates \cap indexed.leaves))'
      ]_vars

\* A later run has resumed from a persisted height above from_height, after a
\* run that was interrupted with updates stored further than leaves.
C36_Witness ==
    /\ indexer.pc = "tip"
    /\ indexed.last_inspected = <<indexer.next_height>>
    /\ indexer.next_height > indexer.from_height
    /\ indexed.updates # indexed.leaves

\* The task stays in the loop of one run over this step.
SameRun ==
    /\ indexer.pc \in {"tip", "sync", "sleep"}
    /\ indexer'.pc \in {"tip", "sync", "sleep"}

\* C37: in every iteration of the home indexer's loop the indexed range
\* satisfies from <= to, and next_height never decreases from one iteration
\* to the next, whatever chain tip the provider returns.
C37_RangeOrderedHeightMonotone ==
    [][/\ indexer'.pc = "sync" => indexer'.next_height <= indexer'.to
       /\ SameRun => indexer.next_height <= indexer'.next_height
      ]_vars

\* ------------------------------------------------------- optics-core utils
\* optics-core/src/utils.rs.  A call is kept in invocation: the function, its
\* arguments and what it came to.
NotReturned == [tag |-> "pending"]
Returned(value) == [tag |-> "ok", value |-> value]
AssertFailed == [tag |-> "panic"]
Failed == [tag |-> "err"]

\* u64 is twice as wide as u32.
U64Modulus == 2^(2 * U32Bits)

\* a << n in u64: the bits shifted out are lost.
ShiftLeft(a, n) == (a * 2^n) % U64Modulus

\* a | b
RECURSIVE BitOr(_, _)
BitOr(a, b) ==
    IF a = 0 THEN b
    ELSE IF b = 0 THEN a
    ELSE (IF a % 2 = 1 \/ b % 2 = 1 THEN 1 ELSE 0) + 2 * BitOr(a \div 2, b \div 2)

\* a & b
RECURSIVE BitAnd(_, _)
BitAnd(a, b) ==
    IF a = 0 \/ b = 0 THEN 0
    ELSE (IF a % 2 = 1 /\ b % 2 = 1 THEN 1 ELSE 0) + 2 * BitAnd(a \div 2, b \div 2)

\* destination_and_nonce as its doc comment words it: (destination << 32) & nonce.
destination_and_nonce_anded(destination, nonce) ==
    IF ~(destination < U32Max) THEN AssertFailed
    ELSE IF ~(nonce < U32Max) THEN AssertFailed
    ELSE Returned(BitAnd(ShiftLeft(destination, U32Bits), nonce))

\* destination_and_nonce: two assertions, then
\* ((destination as u64) << 32) | nonce as u64; 32 is the width of a u32.
destination_and_nonce(destination, nonce) ==
    IF ~(destination < U32Max) THEN AssertFailed
    ELSE IF ~(nonce < U32Max) THEN AssertFailed
    ELSE Returned(BitOr(ShiftLeft(destination, U32Bits), nonce))

\* The calls of destination_and_nonce, not yet evaluated.
DestinationAndNonceCalls ==
    {[fn |-> "destination_and_nonce", destination |-> d, nonce |-> n,
      result |-> NotReturned] : d \in 0..U32Max, n \in 0..U32Max}

CallDestinationAndNonce ==
    /\ invocation.fn = "destination_and_nonce"
    /\ invocation.result = NotReturned
    /\ invocation' = [invocation EXCEPT
                         !.result = destination_and_nonce(invocation.destination,
                                                          invocation.nonce)]
    /\ UNCHANGED <<store, chanVars, handlerVars, pollerVars, configVars, indexer,
                   indexed, fan, agentVars>>

\* ---- strings
\* A str is the sequence of its chars.  The chars the model draws from: the
\* two chars of the prefix, a lower-case and an upper-case hex digit, a letter
\* that is no hex digit, and a char whose UTF-8 encoding takes two bytes.
Chars == {"0", "x", "a", "F", "g", "U+00E9"}
\* Strings have at most MaxLen chars.
MaxLen == 4
Strings == UNION {[1..n -> Chars] : n \in 0..MaxLen}

\* char::len_utf8
len_utf8(c) == IF c = "U+00E9" THEN 2 ELSE 1

\* str::len: the number of bytes.
RECURSIVE len(_)
len(s) == IF s = <<>> THEN 0 ELSE len_utf8(Head(s)) + len(Tail(s))

\* str::is_char_boundary
is_char_boundary(s, index) ==
    \E k \in 0..Len(s) : len(SubSeq(s, 1, k)) = index

\* The number of chars in the first index bytes, index being a char boundary.
CharsBefore(s, index) == CHOOSE k \in 0..Len(s) : len(SubSeq(s, 1, k)) = index

\* &s[..index] and &s[index..]: a slice at a byte index that is not a char
\* boundary panics.
slice_to(s, index) ==
    IF is_char_boundary(s, index)
    THEN Returned(SubSeq(s, 1, CharsBefore(s, index)))
    ELSE AssertFailed
slice_from(s, index) ==
    IF is_char_boundary(s, index)
    THEN Returned(SubSeq(s, CharsBefore(s, index) + 1, Len(s)))
    ELSE AssertFailed

\* strip_0x_prefix: if s.len() < 2 || &s[..2] != "0x" { s } else { &s[2..] }
strip_0x_prefix(s) ==
    IF len(s) < 2 THEN Returned(s)
    ELSE IF slice_to(s, 2) = AssertFailed THEN AssertFailed
    ELSE IF slice_to(s, 2).value # <<"0", "x">> THEN Returned(s)
    ELSE slice_from(s, 2)

\* hex::decode(s).is_err(): an odd number of bytes, or a byte that is no hex
\* digit of either case.
HexDigits == {"0", "a", "F"}
hex_decode_is_err(s) ==
    \/ len(s) % 2 # 0
    \/ \E i \in 1..Len(s) : s[i] \notin HexDigits

\* HexString::<N>::from_string
from_string(N, candidate) ==
    LET stripped == strip_0x_prefix(candidate)
    IN  IF stripped = AssertFailed THEN AssertFailed
        ELSE IF len(stripped.value) # N THEN Failed
        ELSE IF hex_decode_is_err(stripped.value) THEN Failed
        ELSE Returned(stripped.value)

StripCalls ==
    {[fn |-> "strip_0x_prefix", s |-> s, result |-> NotReturned] : s \in Strings}

\* HexString<N> for the lengths N that leave room for a prefix.
FromStringCalls ==
    {[fn |-> "from_string", N |-> N, s |-> s, result |-> NotReturned] :
        N \in 0..(MaxLen - 2), s \in Strings}

CallStrip0xPrefix ==
    /\ invocation.fn = "strip_0x_prefix"
    /\ invocation.result = NotReturned
    /\ invocation' = [invocation EXCEPT !.result = strip_0x_prefix(invocation.s)]
    /\ UNCHANGED <<store, chanVars, handlerVars, pollerVars, configVars, indexer,
                   indexed, fan, agentVars>>

CallFromString ==
    /\ invocation.fn = "from_string"
    /\ invocation.result = NotReturned
    /\ invocation' = [invocation EXCEPT
                         !.result = from_string(invocation.N, invocation.s)]
    /\ UNCHANGED <<store, chanVars, handlerVars, pollerVars, configVars, indexer,
                   indexed, fan, agentVars>>

\* ---- optics-base: Homes and CachingHome
\* The operations of the Home and Common traits, each with its parameters.
HomeParameters ==
    [local_domain |-> <<>>,
     home_domain_hash |-> <<>>,
     raw_message_by_nonce |-> <<"destination", "nonce">>,
     raw_message_by_leaf |-> <<"leaf">>,
     leaf_by_tree_index |-> <<"tree_index">>,
     nonces |-> <<"destination">>,
     dispatch |-> <<"message">>,
     queue_contains |-> <<"root">>,
     improper_update |-> <<"update">>,
     produce_update |-> <<>>]
CommonParameters ==
    [name |-> <<>>,
     status |-> <<"txid">>,
     updater |-> <<>>,
     state |-> <<>>,
     committed_root |-> <<>>,
     signed_update_by_old_root |-> <<"old_root">>,
     signed_update_by_new_root |-> <<"new_root">>,
     update |-> <<"update">>,
     double_update |-> <<"double">>]
HomeOperations == DOMAIN HomeParameters
CommonOperations == DOMAIN CommonParameters
Operations == HomeOperations \cup CommonOperations
Parameters(op) == IF op \in HomeOperations THEN HomeParameters[op] ELSE CommonParameters[op]

\* enum Homes
Variants == {"Ethereum", "Mock", "Other"}

\* A call expression on the wrapped value: the method and the parameters it is
\* given, in order.
Forward(method, arguments) == [method |-> method, arguments |-> arguments]
\* The three arms of a match.
Arms(ethereum, mock, other) == [Ethereum |-> ethereum, Mock |-> mock, Other |-> other]

\* impl Home for Homes: the arms of each match.
Homes_Home(op) ==
    CASE op = "local_domain" ->
            Arms(Forward("local_domain", <<>>),
                 Forward("local_domain", <<>>),
                 Forward("local_domain", <<>>))
      [] op = "home_domain_hash" ->
            Arms(Forward("home_domain_hash", <<>>),
                 Forward("home_domain_hash", <<>>),
                 Forward("home_domain_hash", <<>>))
      [] op = "raw_message_by_nonce" ->
            Arms(Forward("raw_message_by_nonce", <<"destination", "nonce">>),
                 Forward("raw_message_by_nonce", <<"destination", "nonce">>),
                 Forward("raw_message_by_nonce", <<"destination", "nonce">>))
      [] op = "raw_message_by_leaf" ->
            Arms(Forward("raw_message_by_leaf", <<"leaf">>),
                 Forward("raw_message_by_leaf", <<"leaf">>),
                 Forward("raw_message_by_leaf", <<"leaf">>))
      [] op = "leaf_by_tree_index" ->
            Arms(Forward("leaf_by_tree_index", <<"tree_index">>),
                 Forward("leaf_by_tree_index", <<"tree_index">>),
                 Forward("leaf_by_tree_index", <<"tree_index">>))
      [] op = "nonces" ->
            Arms(Forward("nonces", <<"destination">>),
                 Forward("nonces", <<"destination">>),
                 Forward("nonces", <<"destination">>))
      [] op = "dispatch" ->
            Arms(Forward("dispatch", <<"message">>),
                 Forward("dispatch", <<"message">>),
                 Forward("dispatch", <<"message">>))
      [] op = "queue_contains" ->
            Arms(Forward("queue_contains", <<"root">>),
                 Forward("queue_contains", <<"root">>),
                 Forward("queue_contains", <<"root">>))
      [] op = "improper_update" ->
            Arms(Forward("improper_update", <<"update">>),
                 Forward("improper_update", <<"update">>),
                 Forward("improper_update", <<"update">>))
      [] op = "produce_update" ->
            Arms(Forward("produce_update", <<>>),
                 Forward("produce_update", <<>>),
                 Forward("produce_update", <<>>))

\* impl Common for Homes: the arms of each match.
Homes_Common(op) ==
    CASE op = "name" ->
            Arms(Forward("name", <<>>),
                 Forward("name", <<>>),
                 Forward("name", <<>>))
      [] op = "status" ->
            Arms(Forward("status", <<"txid">>),
                 Forward("status", <<"txid">>),
                 Forward("status", <<"txid">>))
      [] op = "updater" ->
            Arms(Forward("updater", <<>>),
                 Forward("updater", <<>>),
                 Forward("updater", <<>>))
      [] op = "state" ->
            Arms(Forward("state", <<>>),
                 Forward("state", <<>>),
                 Forward("state", <<>>))
      [] op = "committed_root" ->
            Arms(Forward("committed_root", <<>>),
                 Forward("committed_root", <<>>),
                 Forward("committed_root", <<>>))
      [] op = "signed_update_by_old_root" ->
            Arms(Forward("signed_update_by_old_root", <<"old_root">>),
                 Forward("signed_update_by_old_root", <<"old_root">>),
                 Forward("signed_update_by_old_root", <<"old_root">>))
      [] op = "signed_update_by_new_root" ->
            Arms(Forward("signed_update_by_new_root", <<"new_root">>),
                 Forward("signed_update_by_new_root", <<"new_root">>),
                 Forward("signed_update_by_new_root", <<"new_root">>))
      [] op = "update" ->
            Arms(Forward("update", <<"update">>),
                 Forward("update", <<"update">>),
                 Forward("update", <<"update">>))
      [] op = "double_update" ->
            Arms(Forward("double_update", <<"double">>),
                 Forward("double_update", <<"double">>),
                 Forward("double_update", <<"double">>))

\* The arms of Homes with the Mock arm of raw_message_by_nonce passing its
\* arguments the other way round.
Homes_arms_swapped(op) ==
    IF op = "raw_message_by_nonce"
    THEN Arms(Forward("raw_message_by_nonce", <<"destination", "nonce">>),
              Forward("raw_message_by_nonce", <<"nonce", "destination">>),
              Forward("raw_message_by_nonce", <<"destination", "nonce">>))
    ELSE IF op \in HomeOperations THEN Homes_Home(op) ELSE Homes_Common(op)

\* The match of an operation of Homes.
Homes_arms(op) == IF op \in HomeOperations THEN Homes_Home(op) ELSE Homes_Common(op)

\* impl Home for CachingHome and impl Common for CachingHome: the call each
\* operation makes on self.home.
CachingHome_forwards(op) ==
    CASE op = "local_domain" -> Forward("local_domain", <<>>)
      [] op = "home_domain_hash" -> Forward("home_domain_hash", <<>>)
      [] op = "raw_message_by_nonce" ->
            Forward("raw_message_by_nonce", <<"destination", "nonce">>)
      [] op = "raw_message_by_leaf" -> Forward("raw_message_by_leaf", <<"leaf">>)
      [] op = "leaf_by_tree_index" -> Forward("leaf_by_tree_index", <<"tree_index">>)
      [] op = "nonces" -> Forward("nonces", <<"destination">>)
      [] op = "dispatch" -> Forward("dispatch", <<"message">>)
      [] op = "queue_contains" -> Forward("queue_contains", <<"root">>)
      [] op = "improper_update" -> Forward("improper_update", <<"update">>)
      [] op = "produce_update" -> Forward("produce_update", <<>>)
      [] op = "name" -> Forward("name", <<>>)
      [] op = "status" -> Forward("status", <<"txid">>)
      [] op = "updater" -> Forward("updater", <<>>)
      [] op = "state" -> Forward("state", <<>>)
      [] op = "committed_root" -> Forward("committed_root", <<>>)
      [] op = "signed_update_by_old_root" ->
            Forward("signed_update_by_old_root", <<"old_root">>)
      [] op = "signed_update_by_new_root" ->
            Forward("signed_update_by_new_root", <<"new_root">>)
      [] op = "update" -> Forward("update", <<"update">>)
      [] op = "double_update" -> Forward("double_update", <<"double">>)

\* The values a call expression passes, given the values of the parameters of
\* the operation it stands in.
Passed(op, values, arguments) ==
    [i \in 1..Len(arguments) |->
        values[CHOOSE j \in 1..Len(Parameters(op)) : Parameters(op)[j] = arguments[i]]]

\* What the wrapped implementation of a variant returns for a method and its
\* argument values: a value that tells the three apart.
Wrapped(variant, method, values) ==
    [by |-> variant, method |-> method, values |-> values]

\* An operation of Homes: the call of the arm of its variant.
Homes_call(variant, op, values) ==
    LET arm == Homes_arms(op)[variant]
    IN  Wrapped(variant, arm.method, Passed(op, values, arm.arguments))

\* An operation of CachingHome: the call on self.home, a Homes.
CachingHome_call(variant, op, values) ==
    LET forward == CachingHome_forwards(op)
    IN  Homes_call(variant, forward.method, Passed(op, values, forward.arguments))

\* The calls of the two wrappers: every operation on every variant, the
\* arguments drawn from two values.
HomesCalls ==
    UNION {{[fn |-> wrapper, variant |-> variant, op |-> op, values |-> values,
             result |-> NotReturned] :
               wrapper \in {"Homes", "CachingHome"}, variant \in Variants,
               values \in [1..Len(Parameters(op)) -> {1, 2}]} : op \in Operations}

CallHomes ==
    /\ invocation.fn = "Homes"
    /\ invocation.result = NotReturned
    /\ invocation' = [invocation EXCEPT
                         !.result = Returned(Homes_call(invocation.variant,
                                                        invocation.op,
                                                        invocation.values))]
    /\ UNCHANGED <<store, chanVars, handlerVars, pollerVars, configVars, indexer,
                   indexed, fan, agentVars>>

CallCachingHome ==
    /\ invocation.fn = "CachingHome"
    /\ invocation.result = NotReturned
    /\ invocation' = [invocation EXCEPT
                         !.result = Returned(CachingHome_call(invocation.variant,
                                                              invocation.op,
                                                              invocation.values))]
    /\ UNCHANGED <<store, chanVars, handlerVars, pollerVars, configVars, indexer,
                   indexed, fan, agentVars>>

\* The calls the library specification starts from.
LibraryCalls == DestinationAndNonceCalls \cup StripCalls \cup FromStringCalls \cup HomesCalls

InitLibrary ==
    /\ store = EmptyStore
    /\ chan = <<>>
    /\ sent = 0
    /\ testTx = FALSE
    /\ testRx = FALSE
    /\ hPc = "absent"
    /\ hUpdate = NoUpdate
    /\ hResult = Pending
    /\ hReceived = {}
    /\ hTrace = NoTrace
    /\ cw = [c \in Contracts |-> NoTask]
    /\ hs = [c \in Contracts |-> NoTask]
    /\ replicas = <<>>
    /\ managers = 0
    /\ signed = SignedUpdate
    /\ tracing = FALSE
    /\ following = FALSE
    /\ fan = FanIdle
    /\ NoSupervisor
    /\ indexer = NoIndexer
    /\ indexed = NothingIndexed
    /\ invocation \in LibraryCalls

NextLibrary ==
    \/ CallDestinationAndNonce
    \/ CallStrip0xPrefix
    \/ CallFromString
    \/ CallHomes
    \/ CallCachingHome

SpecLibrary == InitLibrary /\ [][NextLibrary]_vars

C39_WrappersForward ==
    (invocation.fn \in {"Homes", "CachingHome"} /\ invocation.result # NotReturned) =>
        /\ invocation.result =
              Returned(Wrapped(invocation.variant, invocation.op, invocation.values))
        /\ invocation.fn = "CachingHome" =>
              invocation.result =
                 Returned(Homes_call(invocation.variant, invocation.op,
                                     invocation.values))

\* raw_message_by_nonce, with two different arguments, has returned from a
\* CachingHome whose Homes is the Mock variant.
C39_Witness ==
    /\ invocation.fn = "CachingHome"
    /\ invocation.variant = "Mock"
    /\ invocation.op = "raw_message_by_nonce"
    /\ invocation.values = <<1, 2>>
    /\ invocation.result # NotReturned

\* C40: strip_0x_prefix returns its input unchanged when it is shorter than 2
\* characters or does not start with "0x", and otherwise returns the input
\* without its first two characters; HexString::<N>::from_string(s) succeeds
\* exactly when s without at most one leading "0x" has length N and decodes as
\* hex, and the stored string is the input without that prefix.
C40_HexStringFromString ==
    LET s == invocation.s
        unprefixed == IF Len(s) >= 2 /\ SubSeq(s, 1, 2) = <<"0", "x">>
                      THEN SubSeq(s, 3, Len(s)) ELSE s
    IN  /\ (invocation.fn = "strip_0x_prefix" /\ invocation.result # NotReturned)
              => invocation.result = Returned(unprefixed)
        /\ (invocation.fn = "from_string" /\ invocation.result # NotReturned)
              => /\ invocation.result.tag = "ok"
                       <=> (Len(unprefixed) = invocation.N
                            /\ ~hex_decode_is_err(unprefixed))
                 /\ invocation.result.tag = "ok"
                       => invocation.result.value = unprefixed
====
